---- MODULE Spec2Model ----
(***************************************************************************)
(* Model of the compute-resource-control domain model of                   *)
(* renku_data_services (crc/models.py): ResourceClass, Quota, ResourcePool, *)
(* their validation, the comparison mixin and the update operations.       *)
(*                                                                         *)
(* Representation of Python values                                         *)
(*   - an instance of a class is a record with a field py naming the class;*)
(*   - a dict is a function from its keys to its values (no field py);     *)
(*   - None is the record [py |-> "NoneType"];                             *)
(*   - a str that is looked at character by character (a name, a           *)
(*     toleration) is the sequence of its character codes, 0 being NUL;    *)
(*   - a float or int is an integer; cpu is counted in whole units.        *)
(***************************************************************************)
EXTENDS Integers, Sequences, FiniteSets, TLC

VARIABLES
    op,       \* the operation of the last call ("none" before any call)
    self0,    \* the receiver of the last call as it was before the call
    self,     \* the receiver of the last call as it is after the call
    args,     \* the arguments of the last call as the caller gave them
    args1,    \* the caller's arguments (its dict, its keyword values) after the call
    raised,   \* the exception class the last call raised, "None" if it returned
    message,  \* the message of that exception
    ret,      \* the value the last call returned, None if it raised
    prev      \* the call before the last one, where the caller repeats a
              \* construction with its arguments in another order; else None

vars == <<op, self0, self, args, args1, raised, message, ret, prev>>

----------------------------------------------------------------------------
(* Python values *)

None == [py |-> "NoneType"]
PyInt(n) == [py |-> "int", v |-> n]
Str(s) == [py |-> "str", v |-> s]
List(items) == [py |-> "list", items |-> items]
Tuple(items) == [py |-> "tuple", items |-> items]
PySet(items) == [py |-> "set", items |-> items]

IsDict(x) == "py" \notin DOMAIN x
IsInstance(x, cls) == "py" \in DOMAIN x /\ x.py = cls

\* dict.get(key, default)
Get(data, key, default) == IF key \in DOMAIN data THEN data[key] ELSE default

\* {**a, **b}
Merge(a, b) == [k \in (DOMAIN a) \cup (DOMAIN b) |-> IF k \in DOMAIN b THEN b[k] ELSE a[k]]

\* the outcome of a call: it returned a value or it raised an exception
NoMessage == [text |-> "", name |-> <<>>]
Ok(v) == [raised |-> "None", message |-> NoMessage, ret |-> v]
Raise(e, text, name) == [raised |-> e, message |-> [text |-> text, name |-> name], ret |-> None]

\* s < t for two str, as Python compares them (lexicographic on the code points)
RECURSIVE StrLess(_, _)
StrLess(s, t) ==
    IF t = <<>> THEN FALSE
    ELSE IF s = <<>> THEN TRUE
    ELSE IF Head(s) /= Head(t) THEN Head(s) < Head(t)
    ELSE StrLess(Tail(s), Tail(t))

\* False < True
BoolLess(a, b) == (~a) /\ b

\* (x.key, x.required_during_scheduling) < (y.key, y.required_during_scheduling):
\* the key of the sort of node_affinities
AffinityKeyLess(x, y) ==
    \/ StrLess(x.key, y.key)
    \/ /\ x.key = y.key
       /\ BoolLess(x.required_during_scheduling, y.required_during_scheduling)

\* (x.default, x.cpu, x.memory, x.default_storage, x.name) < (the same of y):
\* the key of the sort of classes
ClassKeyLess(x, y) ==
    \/ BoolLess(x.default, y.default)
    \/ /\ x.default = y.default
       /\ \/ x.cpu < y.cpu
          \/ /\ x.cpu = y.cpu
             /\ \/ x.memory < y.memory
                \/ /\ x.memory = y.memory
                   /\ \/ x.default_storage < y.default_storage
                      \/ /\ x.default_storage = y.default_storage
                         /\ StrLess(x.name, y.name)

ByAffinityKey == "node_affinities"
ByClassKey == "classes"
ByStr == "tolerations"

KeyLess(by, x, y) ==
    CASE by = ByAffinityKey -> AffinityKeyLess(x, y)
      [] by = ByClassKey -> ClassKeyLess(x, y)
      [] by = ByStr -> StrLess(x, y)

\* sorted(seq, key=...): a stable sort; an element is put in front of the
\* elements to its right whose key is not smaller
RECURSIVE Insert(_, _, _)
Insert(x, sortedSeq, by) ==
    IF sortedSeq = <<>> THEN <<x>>
    ELSE IF ~KeyLess(by, Head(sortedSeq), x) THEN <<x>> \o sortedSeq
    ELSE <<Head(sortedSeq)>> \o Insert(x, Tail(sortedSeq), by)

RECURSIVE sorted(_, _)
sorted(seq, by) ==
    IF seq = <<>> THEN <<>>
    ELSE Insert(seq[1], sorted(Tail(seq), by), by)

----------------------------------------------------------------------------
(* ResourcesCompareMixin *)

\* The default of getattr(x, "max_storage", 99999999999999999999999).  The
\* literal is beyond the integers of the model checker; the storage axis is
\* rescaled, keeping the order: storage values are only ever compared.
Sentinel == 1000

GE == "ge"
GT == "gt"
LT == "lt"
LE == "le"

\* the lambdas handed to __compare by __ge__, __gt__, __lt__, __le__
compare_func(o, x, y) ==
    CASE o = GE -> x >= y
      [] o = GT -> x > y
      [] o = LT -> x < y
      [] o = LE -> x <= y

getattr_max_storage(x) == IF "max_storage" \in DOMAIN x THEN x.max_storage ELSE Sentinel

\* __compare without the comparison of max_storage
compare_NoStorage(a, other, o) ==
    LET results == << compare_func(o, a.cpu, other.cpu),
                      compare_func(o, a.memory, other.memory),
                      compare_func(o, a.gpu, other.gpu) >>
    IN  \A i \in DOMAIN results : results[i]

\* __compare with any(results) for all(results)
compare_Any(a, other, o) ==
    LET results == << compare_func(o, a.cpu, other.cpu),
                      compare_func(o, a.memory, other.memory),
                      compare_func(o, a.gpu, other.gpu),
                      compare_func(o, getattr_max_storage(a), getattr_max_storage(other)) >>
    IN  \E i \in DOMAIN results : results[i]

\* __compare that looks at the cpu only
compare_CpuOnly(a, other, o) ==
    LET results == << compare_func(o, a.cpu, other.cpu) >>
    IN  \A i \in DOMAIN results : results[i]

compare(a, other, o) ==
    LET results == << compare_func(o, a.cpu, other.cpu),
                      compare_func(o, a.memory, other.memory),
                      compare_func(o, a.gpu, other.gpu),
                      compare_func(o, getattr_max_storage(a), getattr_max_storage(other)) >>
    IN  \A i \in DOMAIN results : results[i]

ge(a, other) == compare(a, other, GE)
gt(a, other) == compare(a, other, GT)
lt(a, other) == compare(a, other, LT)
le(a, other) == compare(a, other, LE)

----------------------------------------------------------------------------
(* NodeAffinity *)

NodeAffinity(key, required) ==
    [py |-> "NodeAffinity", key |-> key, required_during_scheduling |-> required]

NodeAffinity_from_dict(data) ==
    NodeAffinity(data.key, Get(data, "required_during_scheduling", FALSE))

NodeAffinity_asdict(a) ==
    [key |-> a.key, required_during_scheduling |-> a.required_during_scheduling]

----------------------------------------------------------------------------
(* ResourceClass *)

MaxNameLen == 40
NUL == 0

\* __post_init__ without the check of default_storage
ResourceClass_post_init_NoStorageCheck(rc) ==
    IF \E i \in DOMAIN rc.name : rc.name[i] = NUL
    THEN Raise("ValidationError", "'\\x00' is not allowed in 'name' field.", <<>>)
    ELSE IF Len(rc.name) > MaxNameLen
    THEN Raise("ValidationError", "'name' cannot be longer than 40 characters.", <<>>)
    ELSE Ok([rc EXCEPT !.node_affinities = sorted(rc.node_affinities, ByAffinityKey),
                       !.tolerations = sorted(rc.tolerations, ByStr)])

\* __post_init__ that sorts the tolerations and leaves the node affinities in
\* the order they were given in
ResourceClass_post_init_NoAffinitySort(rc) ==
    IF \E i \in DOMAIN rc.name : rc.name[i] = NUL
    THEN Raise("ValidationError", "'\\x00' is not allowed in 'name' field.", <<>>)
    ELSE IF Len(rc.name) > MaxNameLen
    THEN Raise("ValidationError", "'name' cannot be longer than 40 characters.", <<>>)
    ELSE IF rc.default_storage > rc.max_storage
    THEN Raise("ValidationError",
               "The default storage cannot be larger than the max allowable storage.", <<>>)
    ELSE Ok([rc EXCEPT !.tolerations = sorted(rc.tolerations, ByStr)])

ResourceClass_post_init(rc) ==
    IF \E i \in DOMAIN rc.name : rc.name[i] = NUL
    THEN Raise("ValidationError", "'\\x00' is not allowed in 'name' field.", <<>>)
    ELSE IF Len(rc.name) > MaxNameLen
    THEN Raise("ValidationError", "'name' cannot be longer than 40 characters.", <<>>)
    ELSE IF rc.default_storage > rc.max_storage
    THEN Raise("ValidationError",
               "The default storage cannot be larger than the max allowable storage.", <<>>)
    ELSE Ok([rc EXCEPT !.node_affinities = sorted(rc.node_affinities, ByAffinityKey),
                       !.tolerations = sorted(rc.tolerations, ByStr)])

\* ResourceClass(**data): the dataclass constructor with its defaults
ResourceClass(data) ==
    ResourceClass_post_init(
        [py |-> "ResourceClass",
         name |-> data.name,
         cpu |-> data.cpu,
         memory |-> data.memory,
         max_storage |-> data.max_storage,
         gpu |-> data.gpu,
         id |-> Get(data, "id", None),
         default |-> Get(data, "default", FALSE),
         default_storage |-> Get(data, "default_storage", 1),
         matching |-> Get(data, "matching", None),
         node_affinities |-> Get(data, "node_affinities", <<>>),
         tolerations |-> Get(data, "tolerations", <<>>)])

\* data as from_dict leaves it: data["node_affinities"] is assigned the list
\* of the converted affinities, data["tolerations"] a copy of itself
ResourceClass_from_dict_data(data) ==
    LET affs == Get(data, "node_affinities", <<>>)
    IN  IF "node_affinities" \in DOMAIN data /\ affs /= <<>>
        THEN Merge(data, [node_affinities |->
                 [i \in DOMAIN affs |->
                     IF IsDict(affs[i]) THEN NodeAffinity_from_dict(affs[i]) ELSE affs[i]]])
        ELSE data

ResourceClass_from_dict(data) == ResourceClass(ResourceClass_from_dict_data(data))

\* asdict of a class that loses the tolerations
ResourceClass_asdict_NoTolerations(rc) ==
    [name |-> rc.name, cpu |-> rc.cpu, memory |-> rc.memory, max_storage |-> rc.max_storage,
     gpu |-> rc.gpu, id |-> rc.id, default |-> rc.default, default_storage |-> rc.default_storage,
     matching |-> rc.matching,
     node_affinities |-> [i \in DOMAIN rc.node_affinities |-> NodeAffinity_asdict(rc.node_affinities[i])],
     tolerations |-> <<>>]

ResourceClass_asdict(rc) ==
    [name |-> rc.name, cpu |-> rc.cpu, memory |-> rc.memory, max_storage |-> rc.max_storage,
     gpu |-> rc.gpu, id |-> rc.id, default |-> rc.default, default_storage |-> rc.default_storage,
     matching |-> rc.matching,
     node_affinities |-> [i \in DOMAIN rc.node_affinities |-> NodeAffinity_asdict(rc.node_affinities[i])],
     tolerations |-> rc.tolerations]

is_quota_valid(rc, quota) == ge(quota, rc)

----------------------------------------------------------------------------
(* Quota *)

GpuKind(name) == [py |-> "GpuKind", name |-> name]
NVIDIA == GpuKind("NVIDIA")
AMD == GpuKind("AMD")
GpuKindNames == {"NVIDIA", "AMD"}

\* Quota(**data): the dataclass constructor with its defaults; no validation
Quota(data) ==
    [py |-> "Quota", cpu |-> data.cpu, memory |-> data.memory, gpu |-> data.gpu,
     gpu_kind |-> Get(data, "gpu_kind", NVIDIA), id |-> Get(data, "id", None)]

\* data as from_dict leaves it: data["gpu_kind"] is assigned the member of
\* the enum, unless the lookup of the member raises
Quota_from_dict_data(data) ==
    IF /\ "gpu_kind" \in DOMAIN data
       /\ ~IsInstance(data.gpu_kind, "GpuKind")
       /\ data.gpu_kind.v \in GpuKindNames
    THEN Merge(data, [gpu_kind |-> GpuKind(data.gpu_kind.v)])
    ELSE data

Quota_from_dict(data) ==
    IF "gpu_kind" \in DOMAIN data
    THEN IF IsInstance(data.gpu_kind, "GpuKind") THEN Ok(Quota(data))
         ELSE IF data.gpu_kind.v \in GpuKindNames
              THEN Ok(Quota(Quota_from_dict_data(data)))
              ELSE Raise("KeyError", data.gpu_kind.v, <<>>)
    ELSE Ok(Quota(data))

Quota_asdict(q) ==
    [cpu |-> q.cpu, memory |-> q.memory, gpu |-> q.gpu, gpu_kind |-> q.gpu_kind, id |-> q.id]

is_resource_class_compatible(quota, rc) == le(rc, quota)

----------------------------------------------------------------------------
(* ResourcePool *)

\* the index of the first element of the list that is in the set of indices
First(indices) == CHOOSE i \in indices : \A j \in indices : i <= j

\* __post_init__ without the check of the number of default classes
ResourcePool_post_init_AnyDefaults(p) ==
    LET incompatible == {i \in DOMAIN p.classes :
                            p.quota /= None /\ ~is_resource_class_compatible(p.quota, p.classes[i])}
        default_classes == {i \in DOMAIN p.classes : p.classes[i].default}
    IN  IF \E i \in DOMAIN p.name : p.name[i] = NUL
        THEN Raise("ValidationError", "'\\x00' is not allowed in 'name' field.", <<>>)
        ELSE IF Len(p.name) > MaxNameLen
        THEN Raise("ValidationError", "'name' cannot be longer than 40 characters.", <<>>)
        ELSE IF p.default /\ ~p.public
        THEN Raise("ValidationError", "The default resource pool has to be public.", <<>>)
        ELSE IF p.default /\ p.quota /= None
        THEN Raise("ValidationError", "A default resource pool cannot have a quota.", <<>>)
        ELSE IF incompatible /= {}
        THEN Raise("ValidationError",
                   "The resource class with name {cls.name} is not compatible with the quota.",
                   p.classes[First(incompatible)].name)
        ELSE Ok([p EXCEPT !.classes = sorted(p.classes, ByClassKey)])

\* __post_init__ without the check that the default pool is public
ResourcePool_post_init_NotPublic(p) ==
    LET incompatible == {i \in DOMAIN p.classes :
                            p.quota /= None /\ ~is_resource_class_compatible(p.quota, p.classes[i])}
        default_classes == {i \in DOMAIN p.classes : p.classes[i].default}
    IN  IF \E i \in DOMAIN p.name : p.name[i] = NUL
        THEN Raise("ValidationError", "'\\x00' is not allowed in 'name' field.", <<>>)
        ELSE IF Len(p.name) > MaxNameLen
        THEN Raise("ValidationError", "'name' cannot be longer than 40 characters.", <<>>)
        ELSE IF p.default /\ p.quota /= None
        THEN Raise("ValidationError", "A default resource pool cannot have a quota.", <<>>)
        ELSE IF incompatible /= {}
        THEN Raise("ValidationError",
                   "The resource class with name {cls.name} is not compatible with the quota.",
                   p.classes[First(incompatible)].name)
        ELSE IF Cardinality(default_classes) /= 1
        THEN Raise("ValidationError", "One default class is required in each resource pool.", <<>>)
        ELSE Ok([p EXCEPT !.classes = sorted(p.classes, ByClassKey)])

\* __post_init__ without the check of the classes against the quota
ResourcePool_post_init_NoQuotaCheck(p) ==
    LET incompatible == {i \in DOMAIN p.classes :
                            p.quota /= None /\ ~is_resource_class_compatible(p.quota, p.classes[i])}
        default_classes == {i \in DOMAIN p.classes : p.classes[i].default}
    IN  IF \E i \in DOMAIN p.name : p.name[i] = NUL
        THEN Raise("ValidationError", "'\\x00' is not allowed in 'name' field.", <<>>)
        ELSE IF Len(p.name) > MaxNameLen
        THEN Raise("ValidationError", "'name' cannot be longer than 40 characters.", <<>>)
        ELSE IF p.default /\ ~p.public
        THEN Raise("ValidationError", "The default resource pool has to be public.", <<>>)
        ELSE IF p.default /\ p.quota /= None
        THEN Raise("ValidationError", "A default resource pool cannot have a quota.", <<>>)
        ELSE IF Cardinality(default_classes) /= 1
        THEN Raise("ValidationError", "One default class is required in each resource pool.", <<>>)
        ELSE Ok([p EXCEPT !.classes = sorted(p.classes, ByClassKey)])

\* __post_init__ without the check that the default pool has no quota
ResourcePool_post_init_DefaultWithQuota(p) ==
    LET incompatible == {i \in DOMAIN p.classes :
                            p.quota /= None /\ ~is_resource_class_compatible(p.quota, p.classes[i])}
        default_classes == {i \in DOMAIN p.classes : p.classes[i].default}
    IN  IF \E i \in DOMAIN p.name : p.name[i] = NUL
        THEN Raise("ValidationError", "'\\x00' is not allowed in 'name' field.", <<>>)
        ELSE IF Len(p.name) > MaxNameLen
        THEN Raise("ValidationError", "'name' cannot be longer than 40 characters.", <<>>)
        ELSE IF p.default /\ ~p.public
        THEN Raise("ValidationError", "The default resource pool has to be public.", <<>>)
        ELSE IF incompatible /= {}
        THEN Raise("ValidationError",
                   "The resource class with name {cls.name} is not compatible with the quota.",
                   p.classes[First(incompatible)].name)
        ELSE IF Cardinality(default_classes) /= 1
        THEN Raise("ValidationError", "One default class is required in each resource pool.", <<>>)
        ELSE Ok([p EXCEPT !.classes = sorted(p.classes, ByClassKey)])

\* __post_init__ that counts the default classes before it compares the
\* classes with the quota
ResourcePool_post_init_CountFirst(p) ==
    LET incompatible == {i \in DOMAIN p.classes :
                            p.quota /= None /\ ~is_resource_class_compatible(p.quota, p.classes[i])}
        default_classes == {i \in DOMAIN p.classes : p.classes[i].default}
    IN  IF \E i \in DOMAIN p.name : p.name[i] = NUL
        THEN Raise("ValidationError", "'\\x00' is not allowed in 'name' field.", <<>>)
        ELSE IF Len(p.name) > MaxNameLen
        THEN Raise("ValidationError", "'name' cannot be longer than 40 characters.", <<>>)
        ELSE IF p.default /\ ~p.public
        THEN Raise("ValidationError", "The default resource pool has to be public.", <<>>)
        ELSE IF p.default /\ p.quota /= None
        THEN Raise("ValidationError", "A default resource pool cannot have a quota.", <<>>)
        ELSE IF Cardinality(default_classes) /= 1
        THEN Raise("ValidationError", "One default class is required in each resource pool.", <<>>)
        ELSE IF incompatible /= {}
        THEN Raise("ValidationError",
                   "The resource class with name {cls.name} is not compatible with the quota.",
                   p.classes[First(incompatible)].name)
        ELSE Ok([p EXCEPT !.classes = sorted(p.classes, ByClassKey)])

ResourcePool_post_init(p) ==
    LET incompatible == {i \in DOMAIN p.classes :
                            p.quota /= None /\ ~is_resource_class_compatible(p.quota, p.classes[i])}
        default_classes == {i \in DOMAIN p.classes : p.classes[i].default}
    IN  IF \E i \in DOMAIN p.name : p.name[i] = NUL
        THEN Raise("ValidationError", "'\\x00' is not allowed in 'name' field.", <<>>)
        ELSE IF Len(p.name) > MaxNameLen
        THEN Raise("ValidationError", "'name' cannot be longer than 40 characters.", <<>>)
        ELSE IF p.default /\ ~p.public
        THEN Raise("ValidationError", "The default resource pool has to be public.", <<>>)
        ELSE IF p.default /\ p.quota /= None
        THEN Raise("ValidationError", "A default resource pool cannot have a quota.", <<>>)
        ELSE IF incompatible /= {}
        THEN Raise("ValidationError",
                   "The resource class with name {cls.name} is not compatible with the quota.",
                   p.classes[First(incompatible)].name)
        ELSE IF Cardinality(default_classes) /= 1
        THEN Raise("ValidationError", "One default class is required in each resource pool.", <<>>)
        ELSE Ok([p EXCEPT !.classes = sorted(p.classes, ByClassKey)])

\* ResourcePool(name=..., classes=..., quota=..., id=..., default=..., public=...)
ResourcePool(name, classes, quota, id, default, public) ==
    ResourcePool_post_init(
        [py |-> "ResourcePool", name |-> name, classes |-> classes, quota |-> quota,
         id |-> id, default |-> default, public |-> public])

ResourcePool_asdict(p) ==
    [name |-> p.name,
     classes |-> List([i \in DOMAIN p.classes |-> ResourceClass_asdict(p.classes[i])]),
     quota |-> IF p.quota = None THEN None ELSE Quota_asdict(p.quota),
     id |-> p.id, default |-> p.default, public |-> p.public]

\* from_dict with public=data.get("default", False)
ResourcePool_from_dict_PublicFromDefault(data) ==
    LET quota == IF "quota" \in DOMAIN data /\ IsDict(data.quota) THEN Quota_from_dict(data.quota)
                 ELSE IF "quota" \in DOMAIN data /\ IsInstance(data.quota, "Quota") THEN Ok(data.quota)
                 ELSE Ok(None)
        bound == /\ "classes" \in DOMAIN data
                 /\ IsInstance(data.classes, "set") \/ IsInstance(data.classes, "list")
        items == IF bound THEN data.classes.items ELSE <<>>
        made == [i \in DOMAIN items |->
                    IF IsDict(items[i]) THEN ResourceClass_from_dict(items[i]) ELSE Ok(items[i])]
        failed == {i \in DOMAIN made : made[i].raised /= "None"}
    IN  IF quota.raised /= "None" THEN quota
        ELSE IF failed /= {} THEN made[First(failed)]
        ELSE IF "name" \notin DOMAIN data THEN Raise("KeyError", "name", <<>>)
        ELSE IF ~bound THEN Raise("UnboundLocalError", "classes", <<>>)
        ELSE ResourcePool(data.name, [i \in DOMAIN made |-> made[i].ret], quota.ret,
                          Get(data, "id", None), Get(data, "default", FALSE),
                          Get(data, "default", FALSE))

\* A set of resource classes or of dicts cannot be built (neither is hashable:
\* the generated __hash__ of ResourceClass hashes its list fields), so the only
\* set that reaches from_dict is the empty one and list(set) has one order.
ResourcePool_from_dict(data) ==
    LET quota == IF "quota" \in DOMAIN data /\ IsDict(data.quota) THEN Quota_from_dict(data.quota)
                 ELSE IF "quota" \in DOMAIN data /\ IsInstance(data.quota, "Quota") THEN Ok(data.quota)
                 ELSE Ok(None)
        bound == /\ "classes" \in DOMAIN data
                 /\ IsInstance(data.classes, "set") \/ IsInstance(data.classes, "list")
        items == IF bound THEN data.classes.items ELSE <<>>
        made == [i \in DOMAIN items |->
                    IF IsDict(items[i]) THEN ResourceClass_from_dict(items[i]) ELSE Ok(items[i])]
        failed == {i \in DOMAIN made : made[i].raised /= "None"}
    IN  IF quota.raised /= "None" THEN quota
        ELSE IF failed /= {} THEN made[First(failed)]
        ELSE IF "name" \notin DOMAIN data THEN Raise("KeyError", "name", <<>>)
        ELSE IF ~bound THEN Raise("UnboundLocalError", "classes", <<>>)
        ELSE ResourcePool(data.name, [i \in DOMAIN made |-> made[i].ret], quota.ret,
                          Get(data, "id", None), Get(data, "default", FALSE),
                          Get(data, "public", FALSE))

\* data as from_dict leaves it: the dict of the quota and the dicts of the
\* classes are the caller's objects, and the conversions assign to them; the
\* classes after the first one whose conversion raises are not reached
ResourcePool_from_dict_data(data) ==
    LET isQuotaDict == "quota" \in DOMAIN data /\ IsDict(data.quota)
        quota == IF isQuotaDict THEN Quota_from_dict(data.quota) ELSE Ok(None)
        d1 == IF isQuotaDict
              THEN Merge(data, [quota |-> Quota_from_dict_data(data.quota)])
              ELSE data
        bound == /\ "classes" \in DOMAIN data
                 /\ IsInstance(data.classes, "set") \/ IsInstance(data.classes, "list")
        items == IF bound THEN data.classes.items ELSE <<>>
        failed == {i \in DOMAIN items :
                      IsDict(items[i]) /\ ResourceClass_from_dict(items[i]).raised /= "None"}
        reached(i) == failed = {} \/ i <= First(failed)
        items1 == [i \in DOMAIN items |->
                      IF IsDict(items[i]) /\ reached(i)
                      THEN ResourceClass_from_dict_data(items[i]) ELSE items[i]]
    IN  IF quota.raised /= "None" THEN data
        ELSE IF bound THEN Merge(d1, [classes |-> [data.classes EXCEPT !.items = items1]])
        ELSE d1

\* the outcome of a method: the outcome of the call and the receiver after it
Method(receiver, outcome) ==
    [raised |-> outcome.raised, message |-> outcome.message, ret |-> outcome.ret,
     self |-> receiver]

\* set_quota that assigns the quota to the receiver before it validates
set_quota_InPlace(p, val) ==
    LET incompatible == {i \in DOMAIN p.classes : ~is_resource_class_compatible(val, p.classes[i])}
        assigned == [p EXCEPT !.quota = val]
    IN  IF incompatible /= {}
        THEN Method(assigned, Raise("ValidationError",
                             "The resource class with name {cls.name} is not compatiable with the quota.",
                             p.classes[First(incompatible)].name))
        ELSE Method(assigned, ResourcePool_from_dict(Merge(ResourcePool_asdict(p), [quota |-> val])))

\* set_quota with {"quota": val, **asdict(self)}
set_quota_WrongMerge(p, val) ==
    LET incompatible == {i \in DOMAIN p.classes : ~is_resource_class_compatible(val, p.classes[i])}
    IN  IF incompatible /= {}
        THEN Method(p, Raise("ValidationError",
                             "The resource class with name {cls.name} is not compatiable with the quota.",
                             p.classes[First(incompatible)].name))
        ELSE Method(p, ResourcePool_from_dict(Merge([quota |-> val], ResourcePool_asdict(p))))

\* set_quota that puts the quota into a copy of the pool, the rules of the
\* constructor not being checked again
set_quota_Unvalidated(p, val) ==
    LET incompatible == {i \in DOMAIN p.classes : ~is_resource_class_compatible(val, p.classes[i])}
    IN  IF incompatible /= {}
        THEN Method(p, Raise("ValidationError",
                             "The resource class with name {cls.name} is not compatiable with the quota.",
                             p.classes[First(incompatible)].name))
        ELSE Method(p, Ok([p EXCEPT !.quota = val]))

set_quota(p, val) ==
    LET incompatible == {i \in DOMAIN p.classes : ~is_resource_class_compatible(val, p.classes[i])}
    IN  IF incompatible /= {}
        THEN Method(p, Raise("ValidationError",
                             "The resource class with name {cls.name} is not compatiable with the quota.",
                             p.classes[First(incompatible)].name))
        ELSE Method(p, ResourcePool_from_dict(Merge(ResourcePool_asdict(p), [quota |-> val])))

\* update without the check that a default pool stays the default
update_NoGuard(p, kwargs) ==
    Method(p, ResourcePool_from_dict(Merge(ResourcePool_asdict(p), kwargs)))

\* not kwargs["default"]
update(p, kwargs) ==
    IF p.default /\ "default" \in DOMAIN kwargs /\ ~kwargs.default
    THEN Method(p, Raise("ValidationError", "A default resource pool cannot be made non-default.", <<>>))
    ELSE Method(p, ResourcePool_from_dict(Merge(ResourcePool_asdict(p), kwargs)))

\* kwargs as update leaves them: the values passed for quota and classes are
\* the caller's objects inside the merged dict that from_dict works on
update_kwargs(p, kwargs) ==
    IF p.default /\ "default" \in DOMAIN kwargs /\ ~kwargs.default
    THEN kwargs
    ELSE [k \in DOMAIN kwargs |->
             IF k \in {"quota", "classes"}
             THEN ResourcePool_from_dict_data(Merge(ResourcePool_asdict(p), kwargs))[k]
             ELSE kwargs[k]]

\* generate_id that gives a quota with an id a new one
generate_id_Always(q, uuid4) ==
    Method(q, Quota_from_dict(Merge(Quota_asdict(q), [id |-> Str(uuid4)])))

\* Quota.generate_id, uuid4 being the string that str(uuid4()) returns
generate_id(q, uuid4) ==
    IF q.id /= None THEN Method(q, Ok(q))
    ELSE Method(q, Quota_from_dict(Merge(Quota_asdict(q), [id |-> Str(uuid4)])))

----------------------------------------------------------------------------
(* The values the calls are made with *)

MaxCpu == 2
MaxMemory == 2
MaxGpu == 1
MaxStorage == 2
MaxClasses == 2        \* length of a list of classes

\* "p", "q"
PoolNames == {<<112>>, <<113>>}
\* "a"
ClassNames == {<<97>>}

\* the resources that are compared
Resources == [cpu : 1..MaxCpu, memory : 1..MaxMemory, gpu : 0..MaxGpu]

\* the resources of a class of a pool: the smallest and the largest ones
Smallest == [cpu |-> 1, memory |-> 1, gpu |-> 0]
Largest == [cpu |-> MaxCpu, memory |-> MaxMemory, gpu |-> MaxGpu]
ClassResources == {Smallest, Largest}

\* the resources of a quota of a pool: the largest ones, and the largest ones
\* with one of cpu, memory, gpu down to the smallest
QuotaResources ==
    {Largest, [Largest EXCEPT !.cpu = Smallest.cpu], [Largest EXCEPT !.memory = Smallest.memory],
     [Largest EXCEPT !.gpu = Smallest.gpu]}

Ids == {None, PyInt(1)}

\* keyword arguments of ResourceClass(...), and the same as plain dicts
ClassDicts ==
    {[name |-> n, cpu |-> r.cpu, memory |-> r.memory, gpu |-> r.gpu,
      max_storage |-> MaxStorage, default |-> d] :
        n \in ClassNames, r \in ClassResources, d \in BOOLEAN}

\* the resource classes a caller holds: the ones whose construction succeeded
Classes == {ResourceClass(d).ret : d \in {e \in ClassDicts : ResourceClass(e).raised = "None"}}

SeqsUpTo(S, n) == UNION {[1..k -> S] : k \in 0..n}

ClassLists == SeqsUpTo(Classes, MaxClasses)
ClassDictLists == SeqsUpTo(ClassDicts, MaxClasses)

Quotas == {Quota(r) : r \in QuotaResources}
OptQuotas == Quotas \cup {None}

\* a quota as a plain dict, gpu_kind given by the name of the enum member
QuotaDicts == {[cpu |-> r.cpu, memory |-> r.memory, gpu |-> r.gpu, gpu_kind |-> Str("AMD")] :
                  r \in ClassResources}

EmptyDict == [k \in {} |-> None]
Item(k, v) == [x \in {k} |-> v]

PoolKeys == {"name", "id", "classes", "quota", "default", "public"}

\* the values a caller passes for a field of a pool
Values(k) ==
    CASE k = "name" -> PoolNames
      [] k = "id" -> Ids
      [] k = "classes" -> {List(l) : l \in ClassLists}
      [] k = "quota" -> OptQuotas \cup QuotaDicts
      [] k = "default" -> BOOLEAN
      [] k = "public" -> BOOLEAN

RECURSIVE DictsOver(_)
DictsOver(K) ==
    IF K = {} THEN {EmptyDict}
    ELSE LET k == CHOOSE x \in K : TRUE
         IN  {Merge(d, Item(k, v)) : d \in DictsOver(K \ {k}), v \in Values(k)}

\* the keyword arguments of an update: none, one field, or a flag with the
\* field its rule is about
PatchKeys ==
    {{}} \cup {{k} : k \in PoolKeys}
         \cup {{"default", "public"}, {"default", "quota"}, {"name", "id"}}

Patches == UNION {DictsOver(K) : K \in PatchKeys}

\* the dicts from_dict is called with: classes as a list of dicts, as another
\* kind of collection, or absent; the other keys present or absent
FromDictInputs ==
    {Merge(Merge(c, q), Merge(Item("name", <<112>>), f)) :
        c \in {Item("classes", List(l)) : l \in ClassDictLists}
              \cup {Item("classes", Tuple(<<>>)), Item("classes", PySet(<<>>)), EmptyDict},
        q \in {Item("quota", x) : x \in QuotaDicts} \cup {EmptyDict},
        f \in {EmptyDict, Item("public", TRUE), Merge(Item("public", TRUE), Item("default", TRUE))}}

----------------------------------------------------------------------------
(* The calls *)

Init ==
    /\ op = "none"
    /\ self0 = None
    /\ self = None
    /\ args = None
    /\ args1 = None
    /\ raised = "None"
    /\ message = NoMessage
    /\ ret = None
    /\ prev = None

\* The pool the next call is made on: the one the last call returned.  (A call
\* on the receiver of the last call leads to a state that is reached anyway,
\* from the state where that receiver was returned.)
Pools == {x \in {ret} : x.py = "ResourcePool"}

Return(outcome) ==
    /\ raised' = outcome.raised
    /\ message' = outcome.message
    /\ ret' = outcome.ret

\* The two constructions read nothing of the state: the states they lead to
\* from a later state are the ones they lead to from the initial state, so
\* they are taken from the initial state only.

\* ResourcePool(name=n, classes=c, quota=q, id=i, default=d, public=u)
Construct ==
    /\ op = "none"
    /\ \E n \in PoolNames, c \in ClassLists, q \in OptQuotas, i \in Ids, d \in BOOLEAN, u \in BOOLEAN :
        /\ op' = "ResourcePool"
        /\ args' = [name |-> n, classes |-> c, quota |-> q, id |-> i, default |-> d, public |-> u]
        /\ args1' = args'
        /\ prev' = None
        /\ self0' = None
        /\ self' = None
        /\ Return(ResourcePool(n, c, q, i, d, u))

\* ResourcePool.from_dict(data)
FromDict ==
    /\ op = "none"
    /\ \E data \in FromDictInputs :
        /\ op' = "from_dict"
        /\ args' = data
        /\ args1' = ResourcePool_from_dict_data(data)
        /\ prev' = None
        /\ self0' = None
        /\ self' = None
        /\ Return(ResourcePool_from_dict(data))

\* p.set_quota(val)
SetQuota ==
    \E p \in Pools, val \in Quotas :
        \E outcome \in {set_quota(p, val)} :
            /\ op' = "set_quota"
            /\ args' = val
            /\ args1' = val
            /\ prev' = None
            /\ self0' = p
            /\ self' = outcome.self
            /\ Return(outcome)

\* p.update(**kwargs)
Update ==
    \E p \in Pools, kwargs \in Patches :
        \E outcome \in {update(p, kwargs)} :
            /\ op' = "update"
            /\ args' = kwargs
            /\ args1' = update_kwargs(p, kwargs)
            /\ prev' = None
            /\ self0' = p
            /\ self' = outcome.self
            /\ Return(outcome)

Next == Construct \/ FromDict \/ SetQuota \/ Update

Spec == Init /\ [][Next]_vars

----------------------------------------------------------------------------
(* The comparisons, applied to two resource values *)

\* the values of max_storage: small ones, the sentinel and one beyond it
StorageValues == (1..MaxStorage) \cup {Sentinel, Sentinel + 1}

\* the resource classes and quotas that are compared
Measures ==
    {ResourceClass([name |-> <<97>>, cpu |-> r.cpu, memory |-> r.memory, gpu |-> r.gpu,
                    max_storage |-> m]).ret : r \in Resources, m \in StorageValues}
    \cup {Quota(r) : r \in Resources}

InitCompare ==
    /\ op = "none"
    /\ self0 \in Measures
    /\ self = self0
    /\ args \in Measures
    /\ args1 = args
    /\ raised = "None"
    /\ message = NoMessage
    /\ ret = None
    /\ prev = None

Apply(name, value) ==
    /\ op = "none"
    /\ op' = name
    /\ ret' = value
    /\ UNCHANGED <<self0, self, args, args1, raised, message, prev>>

\* self >= args, self > args, self < args, self <= args
Ge == Apply("__ge__", ge(self, args))
Gt == Apply("__gt__", gt(self, args))
Lt == Apply("__lt__", lt(self, args))
Le == Apply("__le__", le(self, args))

\* self.is_quota_valid(args)
IsQuotaValid ==
    /\ self.py = "ResourceClass"
    /\ args.py = "Quota"
    /\ Apply("is_quota_valid", is_quota_valid(self, args))

\* self.is_resource_class_compatible(args)
IsResourceClassCompatible ==
    /\ self.py = "Quota"
    /\ args.py = "ResourceClass"
    /\ Apply("is_resource_class_compatible", is_resource_class_compatible(self, args))

NextCompare == Ge \/ Gt \/ Lt \/ Le \/ IsQuotaValid \/ IsResourceClassCompatible

SpecCompare == InitCompare /\ [][NextCompare]_vars

----------------------------------------------------------------------------
(* Single constructions and conversions, and the same construction repeated  *)
(* with its arguments in another order                                       *)

MaxAffinities == 2     \* length of a list of node affinities or tolerations

\* "", "a", NUL, "a" NUL, 40 times "a", 41 times "a"
NameInputs ==
    {<<>>, <<97>>, <<NUL>>, <<97, NUL>>,
     [i \in 1..MaxNameLen |-> 97], [i \in 1..(MaxNameLen + 1) |-> 97]}

\* node affinities with the keys "k" and "l"
Affinities == {NodeAffinity(<<107>>, FALSE), NodeAffinity(<<107>>, TRUE), NodeAffinity(<<108>>, FALSE)}
\* "t", "ta", "u"
Tolerations == {<<116>>, <<116, 97>>, <<117>>}

\* the keyword arguments of ResourceClass(...): every name with every pair of
\* max_storage and default_storage (given or left to its default), and the
\* lists of node affinities and tolerations with a valid name
ClassKwargs ==
    {Merge([name |-> n, cpu |-> 1, memory |-> 1, gpu |-> 0, max_storage |-> m], ds) :
        n \in NameInputs, m \in 1..MaxStorage,
        ds \in {EmptyDict} \cup {Item("default_storage", x) : x \in 1..(MaxStorage + 1)}}
    \cup
    {[name |-> <<97>>, cpu |-> 1, memory |-> 1, gpu |-> 0, max_storage |-> MaxStorage,
      node_affinities |-> a, tolerations |-> t] :
        a \in SeqsUpTo(Affinities, MaxAffinities), t \in SeqsUpTo(Tolerations, MaxAffinities)}

\* the same as plain dicts: the node affinities are dicts too
AsPlainDict(kwargs) ==
    IF "node_affinities" \in DOMAIN kwargs
    THEN Merge(kwargs, [node_affinities |->
             [i \in DOMAIN kwargs.node_affinities |-> NodeAffinity_asdict(kwargs.node_affinities[i])]])
    ELSE kwargs

ClassFromDictInputs == {AsPlainDict(k) : k \in ClassKwargs}

\* the dicts Quota.from_dict is called with: gpu_kind absent, the name of a
\* member, another string, or a member
QuotaFromDictInputs ==
    {Merge(Merge([cpu |-> r.cpu, memory |-> r.memory, gpu |-> r.gpu], g), i) :
        r \in ClassResources,
        g \in {EmptyDict} \cup {Item("gpu_kind", x) : x \in {Str("NVIDIA"), Str("AMD"), Str("TPU"), AMD}},
        i \in {EmptyDict, Item("id", None), Item("id", Str("u0"))}}

\* the strings str(uuid4()) returns
Uuids == {"u1", "u2"}

\* the quotas generate_id is called on, with and without an id
QuotaReceivers ==
    {Quota(Merge(r, g)) : r \in ClassResources, g \in {EmptyDict, Item("gpu_kind", AMD)}}
    \cup {Quota(Merge(r, Item("id", i))) : r \in ClassResources, i \in {Str("u0"), Str("")}}

\* classes of one pool: the default one, and two that are not the default and
\* differ in gpu only
DefaultClass ==
    ResourceClass([name |-> <<97>>, cpu |-> 1, memory |-> 1, gpu |-> 0,
                   max_storage |-> MaxStorage, default |-> TRUE]).ret
OtherClass(gpu) ==
    ResourceClass([name |-> <<97>>, cpu |-> 1, memory |-> 1, gpu |-> gpu,
                   max_storage |-> MaxStorage]).ret
PoolClasses == {DefaultClass, OtherClass(0), OtherClass(1)}

\* the lists without repetition
Arrangements(S) ==
    {l \in SeqsUpTo(S, Cardinality(S)) : \A i, j \in DOMAIN l : i /= j => l[i] /= l[j]}

\* the orders a list can be given in
Orders(l) ==
    {[i \in DOMAIN l |-> l[f[i]]] : f \in {g \in [DOMAIN l -> DOMAIN l] : \A i, j \in DOMAIN l : i /= j => g[i] /= g[j]}}

\* the keyword arguments of update with dicts in them: the classes as a list of
\* dicts or as a tuple, the quota as a dict with the name of a gpu kind
DictPatches ==
    {Item("classes", List(<<Merge(d, [default |-> TRUE])>>)) :
        d \in {e \in ClassFromDictInputs :
                  /\ e.name = <<97>> /\ e.max_storage = MaxStorage
                  /\ Get(e, "node_affinities", <<>>) \in {<<>>, <<NodeAffinity_asdict(NodeAffinity(<<107>>, TRUE))>>}
                  /\ Get(e, "tolerations", <<>>) = <<>>}}
    \cup {Item("classes", Tuple(<<>>))}
    \cup {Item("quota", q) : q \in {e \in QuotaFromDictInputs :
                                        "id" \notin DOMAIN e /\ e.cpu = Largest.cpu}}

\* what the caller keeps of a call
Last == [op |-> op, self0 |-> self0, self |-> self, args |-> args, raised |-> raised, ret |-> ret]

\* ResourceClass(**kwargs)
BuildClass ==
    /\ op = "none"
    /\ \E kwargs \in ClassKwargs :
        /\ op' = "ResourceClass"
        /\ args' = kwargs
        /\ args1' = kwargs
        /\ prev' = None
        /\ self0' = None
        /\ self' = None
        /\ Return(ResourceClass(kwargs))

\* ResourceClass(**kwargs) once more, the node affinities and the tolerations
\* of the last construction in another order
BuildClassAgain ==
    /\ op = "ResourceClass"
    /\ prev = None
    /\ raised = "None"
    /\ "node_affinities" \in DOMAIN args
    /\ \E a \in Orders(args.node_affinities), t \in Orders(args.tolerations) :
        /\ op' = "ResourceClass"
        /\ args' = [args EXCEPT !.node_affinities = a, !.tolerations = t]
        /\ args1' = args'
        /\ prev' = Last
        /\ self0' = None
        /\ self' = None
        /\ Return(ResourceClass(args'))

\* ResourceClass.from_dict(data)
ClassFromDict ==
    /\ op = "none"
    /\ \E data \in ClassFromDictInputs :
        /\ op' = "ResourceClass.from_dict"
        /\ args' = data
        /\ args1' = ResourceClass_from_dict_data(data)
        /\ prev' = None
        /\ self0' = None
        /\ self' = None
        /\ Return(ResourceClass_from_dict(data))

\* Quota.from_dict(data)
QuotaFromDict ==
    /\ op = "none"
    /\ \E data \in QuotaFromDictInputs :
        /\ op' = "Quota.from_dict"
        /\ args' = data
        /\ args1' = Quota_from_dict_data(data)
        /\ prev' = None
        /\ self0' = None
        /\ self' = None
        /\ Return(Quota_from_dict(data))

\* q.generate_id(), on a quota the caller made or on the one the last
\* generate_id returned
GenerateId ==
    /\ \/ op = "none"
       \/ op = "generate_id" /\ prev = None
    /\ \E q \in IF op = "none" THEN QuotaReceivers ELSE {ret}, uuid4 \in Uuids :
        \E outcome \in {generate_id(q, uuid4)} :
            /\ op' = "generate_id"
            /\ args' = None
            /\ args1' = None
            /\ prev' = IF op = "none" THEN None ELSE Last
            /\ self0' = q
            /\ self' = outcome.self
            /\ Return(outcome)

\* ResourcePool(name=n, classes=c, quota=q, public=True)
BuildPool ==
    /\ op = "none"
    /\ \E n \in NameInputs, c \in Arrangements(PoolClasses), q \in {None, Quota(Largest)} :
        /\ op' = "ResourcePool"
        /\ args' = [name |-> n, classes |-> c, quota |-> q, id |-> None, default |-> FALSE,
                    public |-> TRUE]
        /\ args1' = args'
        /\ prev' = None
        /\ self0' = None
        /\ self' = None
        /\ Return(ResourcePool(n, c, q, None, FALSE, TRUE))

\* ResourcePool(...) once more, the classes of the last construction in
\* another order
BuildPoolAgain ==
    /\ op = "ResourcePool"
    /\ prev = None
    /\ raised = "None"
    /\ \E c \in Orders(args.classes) :
        /\ op' = "ResourcePool"
        /\ args' = [args EXCEPT !.classes = c]
        /\ args1' = args'
        /\ prev' = Last
        /\ self0' = None
        /\ self' = None
        /\ Return(ResourcePool(args.name, c, args.quota, args.id, args.default, args.public))

\* p.update(**kwargs), dicts among the keyword arguments
UpdateDicts ==
    \E p \in Pools, kwargs \in DictPatches :
        \E outcome \in {update(p, kwargs)} :
            /\ op' = "update"
            /\ args' = kwargs
            /\ args1' = update_kwargs(p, kwargs)
            /\ prev' = None
            /\ self0' = p
            /\ self' = outcome.self
            /\ Return(outcome)

NextBuild ==
    \/ BuildClass \/ BuildClassAgain \/ ClassFromDict
    \/ QuotaFromDict \/ GenerateId
    \/ BuildPool \/ BuildPoolAgain \/ FromDict
    \/ SetQuota \/ UpdateDicts

SpecBuild == Init /\ [][NextBuild]_vars

----------------------------------------------------------------------------
(* Three values compared with each other *)

\* the values that are compared: classes with a max_storage below the sentinel
\* and at the sentinel, and quotas
OrderMeasures ==
    {ResourceClass([name |-> <<97>>, cpu |-> r.cpu, memory |-> r.memory, gpu |-> r.gpu,
                    max_storage |-> m]).ret : r \in Resources, m \in {MaxStorage, Sentinel}}
    \cup {Quota(r) : r \in Resources}

\* self is A, args holds B and C
InitOrder ==
    /\ op = "none"
    /\ self0 \in OrderMeasures
    /\ self = self0
    /\ args \in [b : OrderMeasures, c : OrderMeasures]
    /\ args1 = args
    /\ raised = "None"
    /\ message = NoMessage
    /\ ret = None
    /\ prev = None

\* A >= A, A >= B, B >= A, A <= B, B >= C and A >= C
CompareThree ==
    /\ op = "none"
    /\ op' = "order"
    /\ ret' = [aa |-> ge(self, self), ab |-> ge(self, args.b), ba |-> ge(args.b, self),
               ab_le |-> le(self, args.b), bc |-> ge(args.b, args.c), ac |-> ge(self, args.c)]
    /\ UNCHANGED <<self0, self, args, args1, raised, message, prev>>

NextOrder == CompareThree

SpecOrder == InitOrder /\ [][NextOrder]_vars

----------------------------------------------------------------------------
(* Constructions that break several rules at once *)

\* names: "p", one with NUL, one of 41 characters, one of 41 with NUL in it
RuleNames ==
    {<<112>>, <<112, NUL>>, [i \in 1..(MaxNameLen + 1) |-> 97],
     [i \in 1..(MaxNameLen + 1) |-> IF i = 1 THEN NUL ELSE 97]}

\* classes "a" and "b", with the smallest and the largest resources
RuleClasses ==
    {ResourceClass([name |-> n, cpu |-> r.cpu, memory |-> r.memory, gpu |-> r.gpu,
                    max_storage |-> MaxStorage, default |-> d]).ret :
        n \in {<<97>>, <<98>>}, r \in ClassResources, d \in BOOLEAN}

\* no quota, one that the largest classes exceed, one that no class exceeds
RuleQuotas == {None, Quota(Smallest), Quota(Largest)}

\* ResourcePool(...) with any combination of these
ConstructAny ==
    /\ op = "none"
    /\ \E n \in RuleNames, c \in SeqsUpTo(RuleClasses, MaxClasses), q \in RuleQuotas,
          d \in BOOLEAN, u \in BOOLEAN :
        /\ op' = "ResourcePool"
        /\ args' = [name |-> n, classes |-> c, quota |-> q, id |-> None, default |-> d, public |-> u]
        /\ args1' = args'
        /\ prev' = None
        /\ self0' = None
        /\ self' = None
        /\ Return(ResourcePool(n, c, q, None, d, u))

NextRules == ConstructAny

SpecRules == Init /\ [][NextRules]_vars

----------------------------------------------------------------------------
(* Updates that change nothing *)

\* the default class with node affinities and tolerations, in the order the
\* caller gives them
RichClasses ==
    {ResourceClass([name |-> <<97>>, cpu |-> 1, memory |-> 1, gpu |-> 0,
                    max_storage |-> MaxStorage, default |-> TRUE,
                    node_affinities |-> a, tolerations |-> t]).ret :
        a \in SeqsUpTo(Affinities, MaxAffinities), t \in {<<>>, <<<<117>>, <<116>>>>}}

\* no quota, one with the defaults, one of another gpu kind with an id
RichQuotas ==
    {None, Quota(Largest),
     Quota([cpu |-> MaxCpu, memory |-> MaxMemory, gpu |-> MaxGpu, gpu_kind |-> AMD, id |-> Str("u0")])}

\* ResourcePool(...) of such a class, alone or with another class
BuildRichPool ==
    /\ op = "none"
    /\ \E c \in RichClasses, more \in {<<>>, <<OtherClass(1)>>}, q \in RichQuotas, i \in Ids,
          d \in BOOLEAN, u \in BOOLEAN :
        /\ op' = "ResourcePool"
        /\ args' = [name |-> <<112>>, classes |-> more \o <<c>>, quota |-> q, id |-> i,
                    default |-> d, public |-> u]
        /\ args1' = args'
        /\ prev' = None
        /\ self0' = None
        /\ self' = None
        /\ Return(ResourcePool(<<112>>, more \o <<c>>, q, i, d, u))

\* p.update()
UpdateNothing ==
    \E p \in Pools :
        \E outcome \in {update(p, EmptyDict)} :
            /\ op' = "update"
            /\ args' = EmptyDict
            /\ args1' = EmptyDict
            /\ prev' = None
            /\ self0' = p
            /\ self' = outcome.self
            /\ Return(outcome)

\* p.set_quota(p.quota)
SetSameQuota ==
    \E p \in Pools :
        /\ p.quota /= None
        /\ \E outcome \in {set_quota(p, p.quota)} :
            /\ op' = "set_quota"
            /\ args' = p.quota
            /\ args1' = p.quota
            /\ prev' = None
            /\ self0' = p
            /\ self' = outcome.self
            /\ Return(outcome)

NextNoop == BuildRichPool \/ UpdateNothing \/ SetSameQuota

SpecNoop == Init /\ [][NextNoop]_vars

----------------------------------------------------------------------------
(* The project repository (project/db.py)                                    *)
(*                                                                           *)
(*   - the database is the record of the rows of the projects, each with the *)
(*     slug and the namespace of its EntitySlugORM, and of the roles the     *)
(*     authorization service holds for each project;                         *)
(*   - a str is a TLA+ string, inside Str(...) where the value can be None   *)
(*     too (the id of a user, a description, an etag);                       *)
(*   - a patch is the record of its fields that are not None;                *)
(*   - the fields of a project that are only stored (keywords, repositories, *)
(*     documentation, ...) are represented by its description;               *)
(*   - a call runs in one database transaction: an exception leaves the      *)
(*     database as it was (with_db_transaction).                             *)

MaxProjects == 1       \* number of projects in the database

APIUser(id) == [py |-> "APIUser", id |-> id]
Anonymous == APIUser(None)

\* the rows of NamespaceORM: the namespace of a user and the one of a group
Namespaces ==
    {[id |-> 1, slug |-> "alice", user_id |-> Str("alice"), group_id |-> None],
     [id |-> 2, slug |-> "grp", user_id |-> None, group_id |-> PyInt(1)]}

\* str.lower() on the namespaces that are given
lower(s) == IF s = "Grp" THEN "grp" ELSE s

\* select(NamespaceORM).where(NamespaceORM.slug == slug): the rows found
NamespaceWithSlug(slug) == {ns \in Namespaces : ns.slug = slug}

\* Slug.from_name(name).value: lower case, "-" for what is not a letter or digit
Slug_from_name(name) ==
    CASE name = "A" -> "a"
      [] name = "a" -> "a"
      [] name = "B b" -> "b-b"

\* the scopes a role on a project gives
ScopesOf(role) ==
    CASE role = "owner" -> {"READ", "WRITE", "DELETE", "CHANGE_MEMBERSHIP"}
      [] role = "editor" -> {"READ", "WRITE"}
      [] role = "viewer" -> {"READ"}
      [] OTHER -> {}

\* authz.has_permission(user, ResourceType.project, project_id, scope)
has_permission(db, user, project_id, scope) ==
    /\ user.id /= None
    /\ project_id \in DOMAIN db.roles
    /\ user.id.v \in DOMAIN db.roles[project_id]
    /\ scope \in ScopesOf(db.roles[project_id][user.id.v])

\* authz.has_permission(user, ResourceType.group or user_namespace, id, Scope.WRITE):
\* alice owns her namespace and is a member of the group, bob is not
has_namespace_permission(user, ns) ==
    /\ user.id /= None
    /\ \/ ns.user_id = user.id
       \/ ns.group_id /= None /\ user.id.v \in {"alice"}

\* ProjectORM.dump()
dump(row) ==
    [py |-> "Project", id |-> row.id, name |-> row.name, slug |-> row.slug,
     namespace |-> row.namespace, visibility |-> row.visibility,
     created_by |-> row.created_by, description |-> row.description]

\* the rows of EntitySlugORM with the slug in the namespace
existing_slug(db, ns, slug) ==
    {i \in DOMAIN db.projects : db.projects[i].namespace = ns.slug /\ db.projects[i].slug = slug}

\* Authz.authz_change(AuthzOperation.create, ResourceType.project): the user
\* who created the project is its owner
authz_change_create(db, row) ==
    [db EXCEPT !.roles = Append(@, [u \in {row.created_by.v} |-> "owner"])]

\* insert_project that does not look for the slug in the namespace
insert_project_NoSlugCheck(db, user, project) ==
    LET found == NamespaceWithSlug(lower(project.namespace))
        ns == CHOOSE x \in found : TRUE
        slug == IF "slug" \in DOMAIN project /\ project.slug /= ""
                THEN project.slug ELSE Slug_from_name(project.name)
        row == [id |-> Len(db.projects) + 1, name |-> project.name, slug |-> slug,
                namespace |-> ns.slug, visibility |-> project.visibility,
                created_by |-> user.id, description |-> project.description]
    IN  IF found = {}
        THEN Method(db, Raise("MissingResourceError",
                 "The project cannot be created because the namespace {project.namespace} does not exist", <<>>))
        ELSE IF ns.group_id = None /\ ns.user_id = None
        THEN Method(db, Raise("ProgrammingError",
                 "Found a namespace that has no group or user associated with it.", <<>>))
        ELSE IF user.id = None
        THEN Method(db, Raise("UnauthorizedError",
                 "You do not have the required permissions for this operation.", <<>>))
        ELSE IF ~has_namespace_permission(user, ns)
        THEN Method(db, Raise("ForbiddenError",
                 "The project cannot be created because you do not have sufficient permissions with the namespace {project.namespace}", <<>>))
        ELSE Method(authz_change_create([db EXCEPT !.projects = Append(@, row)], row), Ok(dump(row)))

\* ProjectRepository.insert_project(user, project)
insert_project(db, user, project) ==
    LET found == NamespaceWithSlug(lower(project.namespace))
        ns == CHOOSE x \in found : TRUE
        slug == IF "slug" \in DOMAIN project /\ project.slug /= ""
                THEN project.slug ELSE Slug_from_name(project.name)
        row == [id |-> Len(db.projects) + 1, name |-> project.name, slug |-> slug,
                namespace |-> ns.slug, visibility |-> project.visibility,
                created_by |-> user.id, description |-> project.description]
    IN  IF found = {}
        THEN Method(db, Raise("MissingResourceError",
                 "The project cannot be created because the namespace {project.namespace} does not exist", <<>>))
        ELSE IF ns.group_id = None /\ ns.user_id = None
        THEN Method(db, Raise("ProgrammingError",
                 "Found a namespace that has no group or user associated with it.", <<>>))
        ELSE IF user.id = None
        THEN Method(db, Raise("UnauthorizedError",
                 "You do not have the required permissions for this operation.", <<>>))
        ELSE IF ~has_namespace_permission(user, ns)
        THEN Method(db, Raise("ForbiddenError",
                 "The project cannot be created because you do not have sufficient permissions with the namespace {project.namespace}", <<>>))
        ELSE IF existing_slug(db, ns, slug) /= {}
        THEN Method(db, Raise("ConflictError",
                 "An entity with the slug '{ns.slug}/{slug}' already exists.", <<>>))
        ELSE Method(authz_change_create([db EXCEPT !.projects = Append(@, row)], row), Ok(dump(row)))

\* ProjectRepository.get_project(user, project_id).  (with_documentation only
\* loads a column that is stored and not looked at.)
get_project(db, user, project_id) ==
    IF ~has_permission(db, user, project_id, "READ")
    THEN Method(db, Raise("MissingResourceError",
             "Project with id '{project_id}' does not exist or you do not have access to it.",
             <<project_id>>))
    ELSE IF project_id \notin DOMAIN db.projects
    THEN Method(db, Raise("MissingResourceError",
             "Project with id '{project_id}' does not exist.", <<project_id>>))
    ELSE Method(db, Ok(dump(db.projects[project_id])))

\* _filter_by_namespace_slug and the filter on the slug: the rows selected
filter_by_namespace_slug(db, namespace, slug) ==
    {i \in DOMAIN db.projects :
        db.projects[i].namespace = lower(namespace) /\ db.projects[i].slug = slug}

\* get_project_by_namespace_slug that tells a user without access that the
\* project is forbidden
get_project_by_namespace_slug_Forbidden(db, user, namespace, slug) ==
    LET rows == filter_by_namespace_slug(db, namespace, slug)
        project_orm == First(rows)
        not_found ==
            Raise("MissingResourceError",
                  "Project with identifier '{namespace}/{slug}' does not exist or you do not have access to it.",
                  <<namespace, slug>>)
    IN  IF rows = {} THEN Method(db, not_found)
        ELSE IF ~has_permission(db, user, project_orm, "READ")
        THEN Method(db, Raise("ForbiddenError", "You do not have access to the project.", <<>>))
        ELSE Method(db, Ok(dump(db.projects[project_orm])))

\* ProjectRepository.get_project_by_namespace_slug(user, namespace, slug)
get_project_by_namespace_slug(db, user, namespace, slug) ==
    LET rows == filter_by_namespace_slug(db, namespace, slug)
        project_orm == First(rows)
        not_found ==
            Raise("MissingResourceError",
                  "Project with identifier '{namespace}/{slug}' does not exist or you do not have access to it.",
                  <<namespace, slug>>)
    IN  IF rows = {} THEN Method(db, not_found)
        ELSE IF ~has_permission(db, user, project_orm, "READ") THEN Method(db, not_found)
        ELSE Method(db, Ok(dump(db.projects[project_orm])))

\* models.ProjectUpdate(old=..., new=...)
ProjectUpdate(old, new) == [py |-> "ProjectUpdate", old |-> old, new |-> new]

\* project.dump().etag: updated_at is set by the database on every update; an
\* etag the caller holds is the current one or it is not
current_etag(row) == Str("current")

\* update_project that asks for the WRITE scope whatever the patch
update_project_WriteScope(db, user, project_id, patch, etag) ==
    LET project == db.projects[project_id]
        old_project == dump(project)
        visibility_changes ==
            "visibility" \in DOMAIN patch /\ patch.visibility /= old_project.visibility
        namespace_changes ==
            "namespace" \in DOMAIN patch /\ patch.namespace /= old_project.namespace
        required_scope == "WRITE"
        found == IF "namespace" \in DOMAIN patch THEN NamespaceWithSlug(lower(patch.namespace)) ELSE {}
        ns == CHOOSE x \in found : TRUE
        updated ==
            [project EXCEPT
                !.name = Get(patch, "name", @),
                !.namespace = IF namespace_changes THEN ns.slug ELSE @,
                !.visibility = Get(patch, "visibility", @),
                !.description = IF "description" \in DOMAIN patch
                                THEN (IF patch.description /= "" THEN Str(patch.description) ELSE None)
                                ELSE @]
        twice == {i \in DOMAIN db.projects \ {project_id} :
                     /\ db.projects[i].namespace = updated.namespace
                     /\ db.projects[i].slug = updated.slug}
        saved == Method([db EXCEPT !.projects[project_id] = updated],
                        Ok(ProjectUpdate(old_project, dump(updated))))
    IN  IF project_id \notin DOMAIN db.projects
        THEN {Method(db, Raise("MissingResourceError",
                  "The project with id '{project_id}' cannot be found", <<>>))}
        ELSE IF ~has_permission(db, user, project_id, required_scope)
        THEN {Method(db, Raise("MissingResourceError",
                  "Project with id '{project_id}' does not exist or you do not have access to it.", <<>>))}
        ELSE IF etag /= None /\ current_etag(project) /= etag
        THEN {Method(db, Raise("ConflictError", "Current ETag is {current_etag}, not {etag}.", <<>>))}
        ELSE IF namespace_changes /\ found = {}
        THEN {Method(db, Raise("MissingResourceError",
                  "The namespace with slug {patch.namespace} does not exist", <<>>))}
        ELSE IF namespace_changes /\ ns.group_id = None /\ ns.user_id = None
        THEN {Method(db, Raise("ProgrammingError",
                  "Found a namespace that has no group or user associated with it.", <<>>))}
        ELSE IF namespace_changes /\ ~has_namespace_permission(user, ns)
        THEN {Method(db, Raise("ForbiddenError",
                  "The project cannot be moved because you do not have sufficient permissions with the namespace {patch.namespace}", <<>>))}
        ELSE IF twice /= {}
        THEN {saved, Method(db, Raise("IntegrityError", "", <<>>))}
        ELSE {saved}

\* update_project that does not compare the etag of the caller with the current one
update_project_NoEtagCheck(db, user, project_id, patch, etag) ==
    LET project == db.projects[project_id]
        old_project == dump(project)
        visibility_changes ==
            "visibility" \in DOMAIN patch /\ patch.visibility /= old_project.visibility
        namespace_changes ==
            "namespace" \in DOMAIN patch /\ patch.namespace /= old_project.namespace
        required_scope == IF visibility_changes \/ namespace_changes THEN "DELETE" ELSE "WRITE"
        found == IF "namespace" \in DOMAIN patch THEN NamespaceWithSlug(lower(patch.namespace)) ELSE {}
        ns == CHOOSE x \in found : TRUE
        updated ==
            [project EXCEPT
                !.name = Get(patch, "name", @),
                !.namespace = IF namespace_changes THEN ns.slug ELSE @,
                !.visibility = Get(patch, "visibility", @),
                !.description = IF "description" \in DOMAIN patch
                                THEN (IF patch.description /= "" THEN Str(patch.description) ELSE None)
                                ELSE @]
        twice == {i \in DOMAIN db.projects \ {project_id} :
                     /\ db.projects[i].namespace = updated.namespace
                     /\ db.projects[i].slug = updated.slug}
        saved == Method([db EXCEPT !.projects[project_id] = updated],
                        Ok(ProjectUpdate(old_project, dump(updated))))
    IN  IF project_id \notin DOMAIN db.projects
        THEN {Method(db, Raise("MissingResourceError",
                  "The project with id '{project_id}' cannot be found", <<>>))}
        ELSE IF ~has_permission(db, user, project_id, required_scope)
        THEN {Method(db, Raise("MissingResourceError",
                  "Project with id '{project_id}' does not exist or you do not have access to it.", <<>>))}
        ELSE IF namespace_changes /\ found = {}
        THEN {Method(db, Raise("MissingResourceError",
                  "The namespace with slug {patch.namespace} does not exist", <<>>))}
        ELSE IF namespace_changes /\ ns.group_id = None /\ ns.user_id = None
        THEN {Method(db, Raise("ProgrammingError",
                  "Found a namespace that has no group or user associated with it.", <<>>))}
        ELSE IF namespace_changes /\ ~has_namespace_permission(user, ns)
        THEN {Method(db, Raise("ForbiddenError",
                  "The project cannot be moved because you do not have sufficient permissions with the namespace {patch.namespace}", <<>>))}
        ELSE IF twice /= {}
        THEN {saved, Method(db, Raise("IntegrityError", "", <<>>))}
        ELSE {saved}

\* ProjectRepository.update_project(user, project_id, patch, etag): the
\* outcomes the call can have.  Where the project is moved to a namespace that
\* has its slug already, the flush either saves the second row or fails on a
\* constraint of the table, the definition of which decides.
update_project(db, user, project_id, patch, etag) ==
    LET project == db.projects[project_id]
        old_project == dump(project)
        visibility_changes ==
            "visibility" \in DOMAIN patch /\ patch.visibility /= old_project.visibility
        namespace_changes ==
            "namespace" \in DOMAIN patch /\ patch.namespace /= old_project.namespace
        required_scope == IF visibility_changes \/ namespace_changes THEN "DELETE" ELSE "WRITE"
        found == IF "namespace" \in DOMAIN patch THEN NamespaceWithSlug(lower(patch.namespace)) ELSE {}
        ns == CHOOSE x \in found : TRUE
        updated ==
            [project EXCEPT
                !.name = Get(patch, "name", @),
                !.namespace = IF namespace_changes THEN ns.slug ELSE @,
                !.visibility = Get(patch, "visibility", @),
                !.description = IF "description" \in DOMAIN patch
                                THEN (IF patch.description /= "" THEN Str(patch.description) ELSE None)
                                ELSE @]
        twice == {i \in DOMAIN db.projects \ {project_id} :
                     /\ db.projects[i].namespace = updated.namespace
                     /\ db.projects[i].slug = updated.slug}
        saved == Method([db EXCEPT !.projects[project_id] = updated],
                        Ok(ProjectUpdate(old_project, dump(updated))))
    IN  IF project_id \notin DOMAIN db.projects
        THEN {Method(db, Raise("MissingResourceError",
                  "The project with id '{project_id}' cannot be found", <<>>))}
        ELSE IF ~has_permission(db, user, project_id, required_scope)
        THEN {Method(db, Raise("MissingResourceError",
                  "Project with id '{project_id}' does not exist or you do not have access to it.", <<>>))}
        ELSE IF etag /= None /\ current_etag(project) /= etag
        THEN {Method(db, Raise("ConflictError", "Current ETag is {current_etag}, not {etag}.", <<>>))}
        ELSE IF namespace_changes /\ found = {}
        THEN {Method(db, Raise("MissingResourceError",
                  "The namespace with slug {patch.namespace} does not exist", <<>>))}
        ELSE IF namespace_changes /\ ns.group_id = None /\ ns.user_id = None
        THEN {Method(db, Raise("ProgrammingError",
                  "Found a namespace that has no group or user associated with it.", <<>>))}
        ELSE IF namespace_changes /\ ~has_namespace_permission(user, ns)
        THEN {Method(db, Raise("ForbiddenError",
                  "The project cannot be moved because you do not have sufficient permissions with the namespace {patch.namespace}", <<>>))}
        ELSE IF twice /= {}
        THEN {saved, Method(db, Raise("IntegrityError", "", <<>>))}
        ELSE {saved}

\* authz.upsert_project_members(user, ResourceType.project, project_id, members):
\* for a user who may change the membership, the roles of the members are set
upsert_project_members(db, user, project_id, members) ==
    IF ~has_permission(db, user, project_id, "CHANGE_MEMBERSHIP")
    THEN Method(db, Raise("MissingResourceError",
             "Project with id '{project_id}' does not exist or you do not have access to it.", <<>>))
    ELSE LET changed == [u \in {members[i].user_id : i \in DOMAIN members} |->
                            (CHOOSE m \in {members[i] : i \in DOMAIN members} : m.user_id = u).role]
         IN  Method([db EXCEPT !.roles[project_id] = Merge(@, changed)], Ok(members))

\* the rows of UserORM
KnownUsers == {"alice", "bob"}

\* ProjectMemberRepository.update_members(user, project_id, members)
update_members(db, user, project_id, members) ==
    IF project_id \notin DOMAIN db.projects
    THEN Method(db, Raise("MissingResourceError",
             "Project with ID {project_id} does not exist or you do not have access to it.", <<>>))
    ELSE IF Len(members) = 0
    THEN Method(db, Raise("ValidationError",
             "Please request at least 1 member to be added to the project", <<>>))
    ELSE IF {members[i].user_id : i \in DOMAIN members} \ KnownUsers /= {}
    THEN Method(db, Raise("MissingResourceError",
             "You are trying to add users to the project, but the users with ids {...} cannot be found", <<>>))
    ELSE upsert_project_members(db, user, project_id, members)

\* the calls are made by alice, by bob and by a user who is not logged in
ProjectUsers == {APIUser(Str("alice")), APIUser(Str("bob")), Anonymous}

\* the projects insert_project is called with
UnsavedProjects ==
    {Merge([name |-> "A", namespace |-> n, visibility |-> "private", description |-> None], g) :
        n \in {"alice", "Grp", "zz"},
        g \in {EmptyDict} \cup {Item("slug", x) : x \in {"a", "b"}}}

\* the patches update_project is called with: one field, and the namespace
\* and the visibility together with a description
ProjectPatches ==
    {[description |-> "d"]}
    \cup {[visibility |-> v] : v \in {"private", "public"}}
    \cup {[namespace |-> n] : n \in {"alice", "grp", "zz"}}
    \cup {[namespace |-> n, visibility |-> v, description |-> "d"] :
             n \in {"alice", "grp"}, v \in {"private", "public"}}

\* the patch with the etag the caller sends: none, or a stale one or the
\* current one with a patch of the description
PatchesWithEtag ==
    {[patch |-> x, etag |-> None] : x \in ProjectPatches}
    \cup {[patch |-> [description |-> "d"], etag |-> e] : e \in {Str("stale"), Str("current")}}

\* the members update_members is called with
MemberLists ==
    {<<>>, <<[user_id |-> "carol", role |-> "editor"]>>, <<[user_id |-> "bob", role |-> "editor"]>>}

EmptyDatabase == [py |-> "ProjectRepository", projects |-> <<>>, roles |-> <<>>]

InitProject ==
    /\ op = "none"
    /\ self0 = EmptyDatabase
    /\ self = EmptyDatabase
    /\ args = None
    /\ args1 = None
    /\ raised = "None"
    /\ message = NoMessage
    /\ ret = None
    /\ prev = None

\* the project ids a caller can name: the ones in the database and one more
ProjectIds == 1..(Len(self.projects) + 1)

\* repo.insert_project(user, project)
InsertProject ==
    \E user \in ProjectUsers, project \in UnsavedProjects :
        \E outcome \in {insert_project(self, user, project)} :
            /\ op' = "insert_project"
            /\ args' = [user |-> user, project |-> project]
            /\ args1' = args'
            /\ prev' = None
            /\ self0' = self
            /\ self' = outcome.self
            /\ Return(outcome)

\* repo.update_project(user, project_id, patch, etag)
UpdateProject ==
    \E user \in ProjectUsers \ {Anonymous}, project_id \in ProjectIds, x \in PatchesWithEtag :
        \E outcome \in update_project(self, user, project_id, x.patch, x.etag) :
            /\ op' = "update_project"
            /\ args' = [user |-> user, project_id |-> project_id, patch |-> x.patch, etag |-> x.etag]
            /\ args1' = args'
            /\ prev' = None
            /\ self0' = self
            /\ self' = outcome.self
            /\ Return(outcome)

\* member_repo.update_members(user, project_id, members), the members not
\* being owners of the project
UpdateMembers ==
    \E user \in ProjectUsers \ {Anonymous}, project_id \in ProjectIds, members \in MemberLists :
        /\ \A i \in DOMAIN members :
              ~has_permission(self, APIUser(Str(members[i].user_id)), project_id, "DELETE")
        /\ \E outcome \in {update_members(self, user, project_id, members)} :
            /\ op' = "update_members"
            /\ args' = [user |-> user, project_id |-> project_id, members |-> members]
            /\ args1' = args'
            /\ prev' = None
            /\ self0' = self
            /\ self' = outcome.self
            /\ Return(outcome)

\* only insert_project is called
NextInsert == InsertProject

SpecInsert == InitProject /\ [][NextInsert]_vars

\* the three calls, on a database of up to MaxProjects projects
InsertUpTo == Len(self.projects) < MaxProjects /\ InsertProject

NextProject == InsertUpTo \/ UpdateProject \/ UpdateMembers

SpecProject == InitProject /\ [][NextProject]_vars

\* repo.get_project(user, project_id)
GetProject ==
    \E user \in ProjectUsers, project_id \in ProjectIds :
        \E outcome \in {get_project(self, user, project_id)} :
            /\ op' = "get_project"
            /\ args' = [user |-> user, project_id |-> project_id]
            /\ args1' = args'
            /\ prev' = None
            /\ self0' = self
            /\ self' = outcome.self
            /\ Return(outcome)

\* repo.get_project_by_namespace_slug(user, namespace, slug)
GetProjectByNamespaceSlug ==
    \E user \in ProjectUsers, namespace \in {"alice", "Grp", "grp", "zz"}, slug \in {"a", "b"} :
        \E outcome \in {get_project_by_namespace_slug(self, user, namespace, slug)} :
            /\ op' = "get_project_by_namespace_slug"
            /\ args' = [user |-> user, namespace |-> namespace, slug |-> slug]
            /\ args1' = args'
            /\ prev' = None
            /\ self0' = self
            /\ self' = outcome.self
            /\ Return(outcome)

\* the projects are inserted, given members and read
NextRead == InsertUpTo \/ UpdateMembers \/ GetProject \/ GetProjectByNamespaceSlug

SpecRead == InitProject /\ [][NextRead]_vars

----------------------------------------------------------------------------
(* The Gitlab authenticator (users/gitlab.py)                                *)
(*                                                                           *)
(*   - a request is the record of its headers, its JSON body (None where it  *)
(*     has none, else a JSON object) and its query arguments;                *)
(*   - the Gitlab server is the record of what it answers: the token it      *)
(*     accepts, the user of that token, the id of the project it has and the *)
(*     access level of the user in that project.                             *)

DeveloperAccess == 30     \* the access level from which a member is an admin

\* urllib.parse.urlparse(url).scheme, on the urls that are given
urlparse_scheme(url) ==
    CASE url = "localhost" -> ""
      [] url = "https://localhost" -> "https"
      [] url = "http://localhost" -> "http"

\* GitlabAuthenticator(gitlab_url, token_field) with its __post_init__
GitlabAuthenticator(gitlab_url, token_field) ==
    [py |-> "GitlabAuthenticator",
     gitlab_url |-> IF urlparse_scheme(gitlab_url) = "" THEN "https://" \o gitlab_url ELSE gitlab_url,
     token_field |-> token_field]

\* str(x) for an optional str or int
str(x) ==
    CASE x = None -> "None"
      [] x.py = "int" -> ToString(x.v)
      [] x.py = "str" -> x.v

\* a container is true when it is not None and not empty
Truthy(d) == d /= None /\ DOMAIN d /= {}

\* the exceptions of the gitlab client
GitlabAuthenticationError == [py |-> "GitlabAuthenticationError"]
GitlabGetError == [py |-> "GitlabGetError"]

\* gitlab.Gitlab(url, oauth_token=access_token).auth() and .user: the user of
\* the token, GitlabAuthenticationError where the server refuses the token
client_user(gl, access_token) ==
    IF access_token = gl.token THEN gl.user ELSE GitlabAuthenticationError

\* client.projects.get(id=project_id)
projects_get(gl, project_id) ==
    IF gl.project /= None /\ project_id = gl.project.v THEN [py |-> "Project"] ELSE GitlabGetError

\* project.members.get(id=user_id): the access level of the member
members_get(gl, user_id) ==
    IF gl.access_level /= None THEN gl.access_level ELSE GitlabGetError

GitlabAPIUser(is_admin, id, access_token, project_id) ==
    [py |-> "GitlabAPIUser", is_admin |-> is_admin, id |-> id,
     access_token |-> access_token, project_id |-> project_id]

\* _auth_with_repo in which every member is an admin
auth_with_repo_AnyLevel(authenticator, gl, access_token, project_id) ==
    LET answer == client_user(gl, access_token)
        user == answer
    IN  IF answer = GitlabAuthenticationError
        THEN Raise("Unauthorized", "User not authorized with Gitlab", <<>>)
        ELSE IF user = None
        THEN Raise("Unauthorized", "User not authorized with Gitlab", <<>>)
        ELSE IF user.state /= "active"
        THEN Raise("Unauthorized", "User isn't active in Gitlab", <<>>)
        ELSE IF user.id = None
        THEN Raise("Unauthorized", "Could not get user id", <<>>)
        ELSE IF projects_get(gl, project_id) = GitlabGetError
        THEN Raise("MissingResourceError", "Couldn't find project {project_id} in Gitlab", <<>>)
        ELSE IF members_get(gl, user.id) = GitlabGetError
        THEN Raise("Unauthorized", "User isn't a member of the project {project_id}", <<>>)
        ELSE Ok(GitlabAPIUser(TRUE, str(user.id), access_token, project_id))

\* GitlabAuthenticator._auth_with_repo(access_token, project_id)
auth_with_repo(authenticator, gl, access_token, project_id) ==
    LET answer == client_user(gl, access_token)
        user == answer
    IN  IF answer = GitlabAuthenticationError
        THEN Raise("Unauthorized", "User not authorized with Gitlab", <<>>)
        ELSE IF user = None
        THEN Raise("Unauthorized", "User not authorized with Gitlab", <<>>)
        ELSE IF user.state /= "active"
        THEN Raise("Unauthorized", "User isn't active in Gitlab", <<>>)
        ELSE IF user.id = None
        THEN Raise("Unauthorized", "Could not get user id", <<>>)
        ELSE IF projects_get(gl, project_id) = GitlabGetError
        THEN Raise("MissingResourceError", "Couldn't find project {project_id} in Gitlab", <<>>)
        ELSE IF members_get(gl, user.id) = GitlabGetError
        THEN Raise("Unauthorized", "User isn't a member of the project {project_id}", <<>>)
        ELSE Ok(GitlabAPIUser(members_get(gl, user.id).v >= DeveloperAccess,
                              str(user.id), access_token, project_id))

\* GitlabAuthenticator.authenticate(access_token, request), gl being the server
authenticate(authenticator, gl, access_token, request) ==
    LET token == IF authenticator.token_field /= "Authorization"
                 THEN str(Get(request.headers, authenticator.token_field, None))
                 ELSE access_token
        project_id ==
            IF Truthy(request.json) /\ "project_id" \in DOMAIN request.json
            THEN request.json.project_id
            ELSE IF Truthy(request.args) /\ "project_id" \in DOMAIN request.args
            THEN request.args.project_id
            ELSE None
    IN  IF project_id /= None
        THEN auth_with_repo(authenticator, gl, token, project_id.v)
        ELSE Raise("ValidationError", "project_id not found", <<>>)

\* the authenticators that are configured
Authenticators ==
    {GitlabAuthenticator(u, f) : u \in {"localhost", "https://localhost"},
                                 f \in {"Gitlab-Access-Token", "Authorization"}}

\* the requests that are made: with and without the token header, with no
\* body, an empty one, one with a project id and one with a null project id,
\* and with and without the project id in the query
Requests ==
    {[headers |-> h, json |-> j, args |-> a] :
        h \in {EmptyDict, Item("Gitlab-Access-Token", Str("good"))},
        j \in {None, EmptyDict, Item("project_id", Str("p1")), Item("project_id", None)},
        a \in {EmptyDict, Item("project_id", Str("p1")), Item("project_id", Str("p2"))}}

AccessLevels == {10, 20, 30, 40, 50}

\* what the Gitlab server can answer
GitlabServers ==
    {[token |-> "good", user |-> u, project |-> p, access_level |-> l] :
        u \in {None} \cup {[state |-> st, id |-> i] : st \in {"active", "blocked"},
                                                      i \in {None, PyInt(7)}},
        p \in {None, Str("p1")},
        l \in {None} \cup {PyInt(n) : n \in AccessLevels}}

\* authenticator.authenticate(access_token, request).  The call reads nothing
\* of the state, so it is taken from the initial state only.
Authenticate ==
    /\ op = "none"
    /\ \E authenticator \in Authenticators, gl \in GitlabServers,
       access_token \in {"good", "bad"}, request \in Requests :
        \E outcome \in {authenticate(authenticator, gl, access_token, request)} :
            /\ op' = "authenticate"
            /\ args' = [access_token |-> access_token, request |-> request, gitlab |-> gl]
            /\ args1' = args'
            /\ prev' = None
            /\ self0' = authenticator
            /\ self' = authenticator
            /\ Return(outcome)

NextGitlab == Authenticate

SpecGitlab == Init /\ [][NextGitlab]_vars

----------------------------------------------------------------------------
(* The background jobs (background_jobs/core.py)                             *)
(*                                                                           *)
(*   - self is the state of one run: the position in the code (pc), the      *)
(*     index of the namespace the loop is at, the namespaces the             *)
(*     authorization database has relationships for, the events that are     *)
(*     committed to the event queue database, and the session and the        *)
(*     transaction of each namespace;                                        *)
(*   - args is the configuration: the user namespaces the repository yields, *)
(*     the number of events of each, and the number of owner relationships   *)
(*     the authorization database has before the run;                        *)
(*   - every awaited call on the database or the authorization service       *)
(*     succeeds or raises an Exception.                                      *)

MaxNamespaces == 2       \* number of user namespaces of the repository
MaxEvents == 2           \* number of events of a user namespace
MaxRelationships == 6    \* number of relationships in the authorization database
EnoughRelationships == 5 \* number of relationships from which bootstrap does not sync

NamespaceIds == 1..MaxNamespaces

SyncConfig(namespaces, events, relationships) ==
    [py |-> "SyncConfig", namespaces |-> namespaces, events |-> events,
     relationships |-> relationships]

\* the state of a run before its first step
SyncStart ==
    [py |-> "Sync", pc |-> "init", cur |-> 0, authz |-> {}, stored |-> 0,
     queue |-> [n \in NamespaceIds |-> 0],
     session |-> [n \in NamespaceIds |-> "none"],
     tx |-> [n \in NamespaceIds |-> "none"],
     attempts |-> [n \in NamespaceIds |-> 0],
     num_total |-> 0, num_authz |-> 0, num_events |-> 0]

\* the namespace the loop is at
user_namespace(config, s) == config.namespaces[s.cur]

\* the exception leaves the function: with the session open (pc "raised"), or
\* through the finally clause (pc "close", then "raised")
Propagate(s) == [s EXCEPT !.pc = "raised"]

\* async for user_namespace in user_namespaces, up to session.begin()
next_namespace(config, s) ==
    IF s.cur = Len(config.namespaces)
    THEN [s EXCEPT !.pc = "done"]
    ELSE LET n == config.namespaces[s.cur + 1]
         IN  [s EXCEPT !.cur = @ + 1,
                       !.num_total = @ + 1,
                       !.attempts[n] = @ + 1,
                       !.session[n] = "open",
                       !.tx[n] = "begun",
                       !.stored = 0,
                       !.pc = "start"]

\* await tx.start()
tx_start(config, s, ok) ==
    IF ok THEN [s EXCEPT !.tx[user_namespace(config, s)] = "started", !.pc = "write"]
    ELSE Propagate(s)

\* WriteRelationships that goes on to the events when the write fails
WriteRelationships_FailureIgnored(config, s, ok) ==
    IF ok THEN [s EXCEPT !.authz = @ \cup {user_namespace(config, s)},
                         !.num_authz = @ + 1,
                         !.pc = "store"]
    ELSE [s EXCEPT !.pc = "store"]

\* await authz.client.WriteRelationships(authz_change.apply); num_authz += 1
WriteRelationships(config, s, ok) ==
    IF ok THEN [s EXCEPT !.authz = @ \cup {user_namespace(config, s)},
                         !.num_authz = @ + 1,
                         !.pc = "store"]
    ELSE [s EXCEPT !.pc = "rollback"]

\* await config.event_repo.store_event(session, event) for the next event, and
\* num_events += 1 after the last one
store_event(config, s, ok) ==
    IF ~ok THEN [s EXCEPT !.pc = "rollback"]
    ELSE IF s.stored + 1 < config.events[user_namespace(config, s)]
    THEN [s EXCEPT !.stored = @ + 1]
    ELSE [s EXCEPT !.stored = @ + 1, !.num_events = @ + 1, !.pc = "commit"]

\* except Exception: await tx.rollback()
tx_rollback(config, s, ok) ==
    IF ok THEN [s EXCEPT !.tx[user_namespace(config, s)] = "rolled back", !.stored = 0, !.pc = "close"]
    ELSE [s EXCEPT !.pc = "close and raise"]

\* else: await tx.commit()
tx_commit(config, s, ok) ==
    IF ok THEN [s EXCEPT !.tx[user_namespace(config, s)] = "committed",
                         !.queue[user_namespace(config, s)] = s.stored,
                         !.pc = "close"]
    ELSE [s EXCEPT !.pc = "close and raise"]

\* finally: await session.close()
session_close(config, s) ==
    LET closed == [s EXCEPT !.session[user_namespace(config, s)] = "closed"]
    IN  IF s.pc = "close and raise" THEN Propagate(closed) ELSE [closed EXCEPT !.pc = "iter"]

\* min(5, n)
Min(a, b) == IF a <= b THEN a ELSE b

\* bootstrap_user_namespaces that syncs only when it reads no relationship
bootstrap_user_namespaces_NoneAllowed(config, s) ==
    LET num_rels == Min(EnoughRelationships, config.relationships)
    IN  IF num_rels >= 1 THEN [s EXCEPT !.pc = "returned"] ELSE [s EXCEPT !.pc = "iter"]

\* bootstrap_user_namespaces(config), up to the call of sync_user_namespaces:
\* anext is called five times on the relationships that are read
bootstrap_user_namespaces(config, s) ==
    LET num_rels == Min(EnoughRelationships, config.relationships)
    IN  IF num_rels >= EnoughRelationships THEN [s EXCEPT !.pc = "returned"] ELSE [s EXCEPT !.pc = "iter"]

\* the configurations: the namespaces in the order the repository yields them
SyncConfigs ==
    {SyncConfig(l, e, r) : l \in Arrangements(NamespaceIds),
                           e \in [NamespaceIds -> 1..MaxEvents],
                           r \in 0..MaxRelationships}

InitSync ==
    /\ op = "none"
    /\ self0 = SyncStart
    /\ self = SyncStart
    /\ args \in SyncConfigs
    /\ args1 = args
    /\ raised = "None"
    /\ message = NoMessage
    /\ ret = None
    /\ prev = None

\* one step of the run, from the position at, to the state after
Step(name, at, after) ==
    /\ self.pc \in at
    /\ op' = name
    /\ self0' = self
    /\ self' = after
    /\ raised' = IF after.pc = "raised" THEN "Exception" ELSE "None"
    /\ UNCHANGED <<args, args1, message, ret, prev>>

\* sync_user_namespaces(config) is called
Sync == Step("sync_user_namespaces", {"init"}, [self EXCEPT !.pc = "iter"])
\* bootstrap_user_namespaces(config) is called
Bootstrap == Step("bootstrap_user_namespaces", {"init"}, bootstrap_user_namespaces(args, self))
NextNamespace == Step("next_namespace", {"iter"}, next_namespace(args, self))
TxStart == \E ok \in BOOLEAN : Step("tx.start", {"start"}, tx_start(args, self, ok))
WriteRelationshipsStep ==
    \E ok \in BOOLEAN : Step("WriteRelationships", {"write"}, WriteRelationships(args, self, ok))
StoreEvent == \E ok \in BOOLEAN : Step("store_event", {"store"}, store_event(args, self, ok))
TxRollback == \E ok \in BOOLEAN : Step("tx.rollback", {"rollback"}, tx_rollback(args, self, ok))
TxCommit == \E ok \in BOOLEAN : Step("tx.commit", {"commit"}, tx_commit(args, self, ok))
SessionClose == Step("session.close", {"close", "close and raise"}, session_close(args, self))

NextSync ==
    \/ Sync \/ Bootstrap \/ NextNamespace \/ TxStart \/ WriteRelationshipsStep
    \/ StoreEvent \/ TxRollback \/ TxCommit \/ SessionClose

SpecSync == InitSync /\ [][NextSync]_vars

----------------------------------------------------------------------------
(* What the claims speak of *)

\* the pools that exist in a state
ExistingPools == {x \in {self0, self, ret} : x.py = "ResourcePool"}

PoolCalls == {"ResourcePool", "from_dict", "update", "set_quota"}
Methods == {"update", "set_quota"}

\* the call tries to build a pool: every call but a from_dict without a list
\* or set of classes
Builds ==
    /\ op \in PoolCalls
    /\ op = "from_dict" => ("classes" \in DOMAIN args /\ args.classes.py \in {"list", "set"})

\* the fields the call builds the pool from, as the caller gave them
GivenClasses ==
    CASE op = "ResourcePool" -> args.classes
      [] op = "from_dict" -> args.classes.items
      [] op = "update" -> IF "classes" \in DOMAIN args THEN args.classes.items ELSE self0.classes
      [] op = "set_quota" -> self0.classes
GivenQuota ==
    CASE op = "ResourcePool" -> args.quota
      [] op = "from_dict" -> Get(args, "quota", None)
      [] op = "update" -> Get(args, "quota", self0.quota)
      [] op = "set_quota" -> args
GivenDefault ==
    CASE op = "ResourcePool" -> args.default
      [] op = "from_dict" -> Get(args, "default", FALSE)
      [] op = "update" -> Get(args, "default", self0.default)
      [] op = "set_quota" -> self0.default
GivenPublic ==
    CASE op = "ResourcePool" -> args.public
      [] op = "from_dict" -> Get(args, "public", FALSE)
      [] op = "update" -> Get(args, "public", self0.public)
      [] op = "set_quota" -> self0.public
GivenName ==
    CASE op = "ResourcePool" -> args.name
      [] op = "from_dict" -> args.name
      [] op = "update" -> Get(args, "name", self0.name)
      [] op = "set_quota" -> self0.name
GivenId ==
    CASE op = "ResourcePool" -> args.id
      [] op = "from_dict" -> Get(args, "id", None)
      [] op = "update" -> Get(args, "id", self0.id)
      [] op = "set_quota" -> self0.id

\* a class, given as an object or as a dict, is a default class
GivenAsDefault(c) == IF IsDict(c) THEN Get(c, "default", FALSE) ELSE c.default

NumDefaults(classes) == Cardinality({i \in DOMAIN classes : GivenAsDefault(classes[i])})

\* the class does not ask for more cpu, memory or gpu than the quota has
Fits(c, q) == c.cpu <= q.cpu /\ c.memory <= q.memory /\ c.gpu <= q.gpu

ValidName(n) == Len(n) <= MaxNameLen /\ \A i \in DOMAIN n : n[i] /= NUL

Returned == raised = "None" /\ ret.py = "ResourcePool"
Failed == raised = "ValidationError" /\ ret = None

----------------------------------------------------------------------------
(* The pool invariants *)

\* C1: every pool that exists after any sequence of constructions, from_dict,
\* update and set_quota calls has exactly one class with default = true, and a
\* call that would build a pool from classes with no default class, or with two
\* or more, raises ValidationError and returns no pool.
C1_ExactlyOneDefaultClass ==
    /\ \A p \in ExistingPools : NumDefaults(p.classes) = 1
    /\ (Builds /\ NumDefaults(GivenClasses) /= 1) => Failed

C1_Witness ==
    /\ op = "ResourcePool"
    /\ NumDefaults(args.classes) = 2
    /\ Failed

\* C2: in every pool that exists, default = true implies public = true and no
\* quota.  The constructor fails for default=true with public=false, fails for
\* default=true with a quota, and succeeds for default=true, public=true,
\* quota=None when the name is valid and exactly one class is the default.
C2_DefaultPoolIsPublicWithoutQuota ==
    /\ \A p \in ExistingPools : p.default => (p.public /\ p.quota = None)
    /\ (op = "ResourcePool" /\ args.default /\ ~args.public) => Failed
    /\ (op = "ResourcePool" /\ args.default /\ args.quota /= None) => Failed
    /\ ( /\ op = "ResourcePool"
         /\ args.default /\ args.public /\ args.quota = None
         /\ ValidName(args.name) /\ NumDefaults(args.classes) = 1 )
       => (Returned /\ ret.default /\ ret.public /\ ret.quota = None)

C2_Witness ==
    /\ op = "ResourcePool"
    /\ args.default /\ args.public /\ args.quota = None
    /\ Returned
    /\ ret.default

\* C3: in every pool that exists and has a quota, every class has cpu, memory
\* and gpu at most those of the quota; a call that would build a pool with a
\* quota and a class that exceeds it raises ValidationError.
C3_ClassesFitTheQuota ==
    /\ \A p \in ExistingPools :
          p.quota /= None => \A i \in DOMAIN p.classes : Fits(p.classes[i], p.quota)
    /\ ( /\ Builds
         /\ GivenQuota /= None
         /\ \E i \in DOMAIN GivenClasses : ~Fits(GivenClasses[i], GivenQuota) )
       => Failed

C3_Witness ==
    /\ op = "update"
    /\ "classes" \in DOMAIN args
    /\ self0.quota /= None
    /\ \E i \in DOMAIN args.classes.items : ~Fits(args.classes.items[i], self0.quota)
    /\ Failed

----------------------------------------------------------------------------
(* The comparisons *)

Comparisons == {"__ge__", "__gt__", "__lt__", "__le__"}

\* the scalar relation an operator stands for
Holds(name, x, y) ==
    CASE name = "__ge__" -> x >= y
      [] name = "__gt__" -> x > y
      [] name = "__lt__" -> x < y
      [] name = "__le__" -> x <= y

\* the max_storage a value is compared by: its own, the sentinel for a Quota
Storage(x) == IF x.py = "Quota" THEN Sentinel ELSE x.max_storage

\* C4: for two resource values A and B (each a ResourceClass or a Quota) and
\* each of >=, >, <, <=, A op B is true exactly when op holds on cpu, on
\* memory, on gpu and on max_storage, a Quota standing with the sentinel for
\* its max_storage.
C4_ComparisonIsComponentwise ==
    op \in Comparisons =>
        ret = ( /\ Holds(op, self.cpu, args.cpu)
                /\ Holds(op, self.memory, args.memory)
                /\ Holds(op, self.gpu, args.gpu)
                /\ Holds(op, Storage(self), Storage(args)) )

\* cpu, memory and gpu are all larger, max_storage is smaller: a sum or a
\* lexicographic comparison would say greater
C4_Witness ==
    /\ op = "__gt__"
    /\ self.cpu > args.cpu /\ self.memory > args.memory /\ self.gpu > args.gpu
    /\ Storage(self) < Storage(args)
    /\ ret = FALSE

\* C5 as stated: for A and B with A.cpu >= B.cpu, A.memory < B.memory and
\* A.gpu >= B.gpu, both A >= B and B >= A are false.  (The state holds one
\* comparison self >= args; A is self in the first part, args in the second.)
C5_AsStated ==
    op = "__ge__" =>
        /\ (self.cpu >= args.cpu /\ self.memory < args.memory /\ self.gpu >= args.gpu)
              => ret = FALSE
        /\ (args.cpu >= self.cpu /\ args.memory < self.memory /\ args.gpu >= self.gpu)
              => ret = FALSE

\* C5, amended: for A and B with A.cpu >= B.cpu, A.memory < B.memory and
\* A.gpu >= B.gpu, A >= B is false, and B >= A is false exactly when A.cpu >
\* B.cpu or A.gpu > B.gpu or the max_storage of A is larger than that of B;
\* with equal cpu and gpu and a max_storage of B not below that of A, B >= A
\* is true.
C5_IncomparableWhenOneSideIsStrictlyLarger ==
    op = "__ge__" =>
        /\ (self.cpu >= args.cpu /\ self.memory < args.memory /\ self.gpu >= args.gpu)
              => ret = FALSE
        /\ (args.cpu >= self.cpu /\ args.memory < self.memory /\ args.gpu >= self.gpu)
              => (ret = FALSE <=> ( \/ args.cpu > self.cpu
                                    \/ args.gpu > self.gpu
                                    \/ Storage(args) > Storage(self) ))

\* B >= A was computed for an A with more cpu and less memory than B
C5_Witness ==
    /\ op = "__ge__"
    /\ args.cpu > self.cpu /\ args.memory < self.memory /\ args.gpu >= self.gpu
    /\ ret = FALSE

\* C6 as stated: is_quota_valid and is_resource_class_compatible are true
\* exactly when the quota has at least the cpu, the memory and the gpu of the
\* class; the max_storage of the class never decides.
C6_AsStated ==
    /\ op = "is_quota_valid" => (ret = Fits(self, args))
    /\ op = "is_resource_class_compatible" => (ret = Fits(args, self))

----------------------------------------------------------------------------
(* set_quota and update *)

\* C7: the default pool stays the default: update with default=False on a
\* pool with default = true raises ValidationError, and every pool that update
\* or set_quota returns for a receiver with default = true has default = true.
C7_DefaultIsOneWay ==
    /\ (op = "update" /\ self0.default /\ "default" \in DOMAIN args /\ ~args.default) => Failed
    /\ (op \in Methods /\ self0.default /\ Returned) => ret.default

C7_Witness ==
    /\ op = "update"
    /\ self0.default
    /\ "default" \in DOMAIN args /\ ~args.default
    /\ Failed

\* C8: set_quota and update leave the receiver as it was, whether they return
\* a pool or raise: name, id, classes, quota, default and public are the same
\* after the call as before it.
C8_ReceiverUnchanged ==
    op \in Methods =>
        /\ self.name = self0.name
        /\ self.id = self0.id
        /\ self.classes = self0.classes
        /\ self.quota = self0.quota
        /\ self.default = self0.default
        /\ self.public = self0.public

\* set_quota raised for a quota that a class of the receiver exceeds
C8_Witness ==
    /\ op = "set_quota"
    /\ \E i \in DOMAIN self0.classes : ~Fits(self0.classes[i], args)
    /\ Failed
    /\ self.quota = self0.quota
    /\ self.quota /= args

\* the pool set_quota returned has the quota and the other fields of the receiver
QuotaSet ==
    /\ Returned
    /\ ret.quota = args
    /\ ret.name = self0.name
    /\ ret.id = self0.id
    /\ ret.classes = self0.classes
    /\ ret.default = self0.default
    /\ ret.public = self0.public

\* C9 as stated: when all classes of P are compatible with Q, P.set_quota(Q)
\* returns a pool with quota Q and the name, id, classes, default and public
\* of P; when some class is not compatible it raises ValidationError.
C9_AsStated ==
    op = "set_quota" =>
        IF \A i \in DOMAIN self0.classes : is_resource_class_compatible(args, self0.classes[i])
        THEN QuotaSet
        ELSE Failed

\* C9, amended: when P is not the default pool and all classes of P are
\* compatible with Q, P.set_quota(Q) returns a pool with quota Q and the name,
\* id, classes, default and public of P; when some class is not compatible, or
\* P is the default pool, it raises ValidationError.
C9_SetQuotaOnNonDefaultPool ==
    op = "set_quota" =>
        IF /\ ~self0.default
           /\ \A i \in DOMAIN self0.classes : is_resource_class_compatible(args, self0.classes[i])
        THEN QuotaSet
        ELSE Failed

C9_Witness ==
    /\ op = "set_quota"
    /\ ~self0.default
    /\ self0.quota /= args
    /\ self0.id /= None
    /\ Len(self0.classes) > 1
    /\ QuotaSet

\* the Quota a caller means by the value it passes for quota
MeantQuota(q) ==
    IF IsDict(q)
    THEN [py |-> "Quota", cpu |-> q.cpu, memory |-> q.memory, gpu |-> q.gpu,
          gpu_kind |-> IF "gpu_kind" \notin DOMAIN q THEN NVIDIA
                       ELSE IF q.gpu_kind.py = "GpuKind" THEN q.gpu_kind
                       ELSE GpuKind(q.gpu_kind.v),
          id |-> Get(q, "id", None)]
    ELSE q

\* C10: when update returns, the pool it returns has, for each of name, id,
\* classes, quota, default and public, the value of the patch if the patch has
\* the field and the value of the receiver otherwise, the classes in their
\* canonical order.
C10_UpdateMergesThePatch ==
    (op = "update" /\ Returned) =>
        /\ ret.name = GivenName
        /\ ret.id = GivenId
        /\ ret.classes = sorted(GivenClasses, ByClassKey)
        /\ ret.quota = MeantQuota(GivenQuota)
        /\ ret.default = GivenDefault
        /\ ret.public = GivenPublic

\* a patch of the classes, given in another order than the canonical one
C10_Witness ==
    /\ op = "update"
    /\ Returned
    /\ "classes" \in DOMAIN args
    /\ args.classes.items /= ret.classes
    /\ args.classes.items /= self0.classes
    /\ self0.public


\* C11: update runs every rule of the pool on the merged fields: it raises
\* ValidationError when the merged pool is the default one and is not public
\* or has a quota (so for update(default=True) on such a pool that was not the
\* default), when the merged classes have no default class or several, and when
\* a merged class exceeds the merged quota.
C11_UpdateRevalidates ==
    op = "update" =>
        /\ (GivenDefault /\ ~GivenPublic) => Failed
        /\ (GivenDefault /\ GivenQuota /= None) => Failed
        /\ NumDefaults(GivenClasses) /= 1 => Failed
        /\ ( /\ GivenQuota /= None
             /\ \E i \in DOMAIN GivenClasses : ~Fits(GivenClasses[i], GivenQuota) ) => Failed

\* update(default=True) on a public pool that is not the default and has a quota
C11_Witness ==
    /\ op = "update"
    /\ ~self0.default /\ self0.public /\ self0.quota /= None
    /\ DOMAIN args = {"default"} /\ args.default
    /\ Failed


----------------------------------------------------------------------------
(* The single values: names, storage, canonical order, ids, the caller's data *)

\* the resource classes that exist in a state: the ones the caller holds and
\* the ones inside the pools it holds
Held == {self0, self, ret} \cup (IF prev = None THEN {} ELSE {prev.ret})
ExistingClasses ==
    {x \in Held : x.py = "ResourceClass"}
    \cup UNION {{x.classes[i] : i \in DOMAIN x.classes} : x \in {y \in Held : y.py = "ResourcePool"}}
AllPools == {x \in Held : x.py = "ResourcePool"}

\* a name as the specification wants it: 1 to 40 characters, none of them NUL
NameWithinBounds(n) == Len(n) >= 1 /\ Len(n) <= MaxNameLen /\ \A i \in DOMAIN n : n[i] /= NUL

ClassCalls == {"ResourceClass", "ResourceClass.from_dict"}

\* C12 as stated: every resource class and every pool that was constructed
\* has a name of 1 to 40 characters without NUL, and a construction with a name
\* outside these bounds raises ValidationError.
C12_AsStated ==
    /\ \A c \in ExistingClasses : NameWithinBounds(c.name)
    /\ \A p \in AllPools : NameWithinBounds(p.name)
    /\ (op \in ClassCalls \cup {"ResourcePool"} /\ ~NameWithinBounds(args.name)) => Failed

\* C13: every resource class that exists, built by the constructor, by
\* from_dict or inside a pool that from_dict, update or set_quota built, has
\* default_storage <= max_storage, and a construction with default_storage
\* above max_storage raises ValidationError.
C13_DefaultStorageWithinMax ==
    /\ \A c \in ExistingClasses : c.default_storage <= c.max_storage
    /\ (op \in ClassCalls /\ Get(args, "default_storage", 1) > args.max_storage) => Failed
    /\ ( /\ op = "update" /\ "classes" \in DOMAIN args /\ args.classes.py = "list"
         /\ \E i \in DOMAIN args.classes.items :
               Get(args.classes.items[i], "default_storage", 1) > args.classes.items[i].max_storage )
       => Failed

\* the constructor is called with a valid name and default_storage one above
\* max_storage, and raises
C13_Witness ==
    /\ op = "ResourceClass"
    /\ ValidName(args.name)
    /\ "default_storage" \in DOMAIN args /\ args.default_storage = args.max_storage + 1
    /\ Failed

IsSorted(seq, by) == \A i, j \in DOMAIN seq : i < j => ~KeyLess(by, seq[j], seq[i])

\* C14: a resource class that was built has its node affinities sorted by
\* (key, required_during_scheduling) and its tolerations sorted, and two
\* resource classes built from the same fields with the same node affinities
\* and tolerations in two orders are equal.
C14_ClassEqualityIgnoresOrder ==
    /\ (op \in ClassCalls /\ raised = "None") =>
          /\ IsSorted(ret.node_affinities, ByAffinityKey)
          /\ IsSorted(ret.tolerations, ByStr)
    /\ (op = "ResourceClass" /\ prev /= None /\ raised = "None") => ret = prev.ret

\* the second construction got two node affinities with the same key and two
\* tolerations, both in the other order, and returned
C14_Witness ==
    /\ op = "ResourceClass" /\ prev /= None /\ raised = "None"
    /\ Len(args.node_affinities) = 2 /\ Len(args.tolerations) = 2
    /\ args.node_affinities[1].key = args.node_affinities[2].key
    /\ args.node_affinities /= prev.args.node_affinities
    /\ args.tolerations /= prev.args.tolerations
    /\ ret = prev.ret

\* C15 as stated: two pools built from the same name (here one of 1 to 40
\* characters), id, quota, default and public and the same valid classes in
\* two orders are equal.
C15_AsStated ==
    (op = "ResourcePool" /\ prev /= None /\ raised = "None" /\ NameWithinBounds(args.name))
    => ret = prev.ret

\* C16: generate_id leaves its receiver as it was; on a quota with an id it
\* returns that quota; on a quota without one it returns a quota with the same
\* cpu, memory, gpu and gpu_kind and a non-empty id; called on the quota it
\* returned, it returns the same id.
C16_GenerateIdIsIdempotent ==
    op = "generate_id" =>
        /\ raised = "None"
        /\ self = self0
        /\ self0.id /= None => ret = self0
        /\ self0.id = None =>
              /\ ret.py = "Quota"
              /\ ret.cpu = self0.cpu /\ ret.memory = self0.memory /\ ret.gpu = self0.gpu
              /\ ret.gpu_kind = self0.gpu_kind
              /\ ret.id /= None /\ ret.id.py = "str" /\ ret.id.v /= ""
        /\ prev /= None => ret.id = prev.ret.id

\* generate_id was called on a quota without an id and then on its result
C16_Witness ==
    /\ op = "generate_id" /\ prev /= None
    /\ prev.self0.id = None /\ prev.self.id = None
    /\ self0 = prev.ret
    /\ ret.id = prev.ret.id

\* C17 as stated: from_dict of a dict that has a name, and update, return a
\* pool or raise ValidationError, and nothing else.
C17_AsStated ==
    ( \/ op = "from_dict" /\ "name" \in DOMAIN args
      \/ op = "update" )
    => \/ Returned
       \/ Failed

\* C18 as stated: after ResourceClass.from_dict(d), Quota.from_dict(d) and
\* ResourcePool.from_dict(d), and after update, the caller's dict and the dicts
\* in it are as they were before the call.
C18_AsStated ==
    op \in {"ResourceClass.from_dict", "Quota.from_dict", "from_dict", "update"} => args1 = args


----------------------------------------------------------------------------
(* The project repository *)

\* no two projects of the database have the same slug in the same namespace
UniqueSlugs(db) ==
    \A i, j \in DOMAIN db.projects :
        i /= j => ~( /\ db.projects[i].namespace = db.projects[j].namespace
                     /\ db.projects[i].slug = db.projects[j].slug )

\* the slug an insert is made with, given or derived from the name, and the
\* namespace it is made in
InsertedSlug ==
    IF "slug" \in DOMAIN args.project THEN args.project.slug ELSE Slug_from_name(args.project.name)
SlugIsTaken ==
    \E i \in DOMAIN self0.projects :
        /\ self0.projects[i].namespace = lower(args.project.namespace)
        /\ self0.projects[i].slug = InsertedSlug

\* C19 as stated: after any sequence of insert_project calls no two projects of
\* a namespace have the same slug, and an insert whose slug exists in the
\* namespace fails with ConflictError and adds no project and no slug entry.
C19_AsStated ==
    /\ UniqueSlugs(self)
    /\ (op = "insert_project" /\ SlugIsTaken) => (raised = "ConflictError" /\ self = self0)

\* C19, amended: after any sequence of insert_project calls no two projects of
\* a namespace have the same slug; an insert whose slug exists in the namespace
\* adds no project and no slug entry, and fails with ConflictError when the
\* user is logged in and may write to the namespace, with UnauthorizedError or
\* ForbiddenError when not.
C19_SlugsAreUniqueInANamespace ==
    /\ UniqueSlugs(self)
    /\ (op = "insert_project" /\ SlugIsTaken) =>
          /\ self = self0
          /\ ret = None
          /\ raised = (IF args.user.id = None THEN "UnauthorizedError"
                       ELSE IF \A ns \in NamespaceWithSlug(lower(args.project.namespace)) :
                                  ~has_namespace_permission(args.user, ns)
                       THEN "ForbiddenError"
                       ELSE "ConflictError")

\* the slug derived from the name is the one of a project of the namespace,
\* another namespace has a project too, and the insert fails with ConflictError
C19_Witness ==
    /\ op = "insert_project"
    /\ "slug" \notin DOMAIN args.project
    /\ SlugIsTaken
    /\ \E i \in DOMAIN self.projects : self.projects[i].namespace /= lower(args.project.namespace)
    /\ raised = "ConflictError"
    /\ self = self0

\* the project update_project is called on, as it was before the call
Patched == self0.projects[args.project_id]
CarriesChange ==
    \/ "visibility" \in DOMAIN args.patch /\ args.patch.visibility /= Patched.visibility
    \/ "namespace" \in DOMAIN args.patch /\ args.patch.namespace /= Patched.namespace
\* the role of the caller on the project
RoleOfCaller == Get(self0.roles[args.project_id], args.user.id.v, "none")
Denied ==
    /\ raised = "MissingResourceError"
    /\ message.text = "Project with id '{project_id}' does not exist or you do not have access to it."
    /\ ret = None

\* C20: update_project on a project that exists requires the DELETE scope (the
\* owner) exactly when the patch carries a visibility other than the current
\* one or a namespace other than the current namespace slug, and the WRITE
\* scope (the owner, an editor) otherwise; a user without the required scope
\* gets MissingResourceError and the database is left as it was, a user with it
\* does not get that error.
C20_DeleteScopeOnlyForAChange ==
    (op = "update_project" /\ args.project_id \in DOMAIN self0.projects) =>
        LET required == IF CarriesChange THEN "DELETE" ELSE "WRITE"
        IN  IF required \in ScopesOf(RoleOfCaller)
            THEN ~Denied
            ELSE Denied /\ self = self0

\* an editor sends the current namespace and visibility with a description,
\* and the project is updated
C20_Witness ==
    /\ op = "update_project" /\ args.project_id \in DOMAIN self0.projects
    /\ RoleOfCaller = "editor"
    /\ DOMAIN args.patch = {"namespace", "visibility", "description"}
    /\ ~CarriesChange
    /\ raised = "None"
    /\ self.projects[args.project_id].description = Str("d")
    /\ self0.projects[args.project_id].description = None

\* the etag of the caller is not the current one of the project
EtagDiffers == args.etag /= None /\ args.etag /= current_etag(Patched)
\* the caller has the scope the patch requires
HasRequiredScope == (IF CarriesChange THEN "DELETE" ELSE "WRITE") \in ScopesOf(RoleOfCaller)

\* C21 as stated: update_project called with an etag that differs from the
\* current etag of the project raises ConflictError and leaves the stored
\* project unchanged; a patch is applied only when no etag is given or the
\* given etag is the current one.
C21_AsStated ==
    (op = "update_project" /\ args.project_id \in DOMAIN self0.projects) =>
        /\ EtagDiffers => (raised = "ConflictError" /\ self = self0)
        /\ self /= self0 => ~EtagDiffers

\* C21, amended: update_project called on a project by a user who has the
\* scope the patch requires, with an etag that differs from the current etag
\* of the project, raises ConflictError; called by a user without that scope
\* it raises MissingResourceError whatever the etag.  In both cases the stored
\* project is unchanged: a patch is applied only when no etag is given or the
\* given etag is the current one.
C21_StaleEtagIsAConflictForAPermittedCaller ==
    (op = "update_project" /\ args.project_id \in DOMAIN self0.projects) =>
        /\ (EtagDiffers /\ HasRequiredScope) => (raised = "ConflictError" /\ ret = None)
        /\ (EtagDiffers /\ ~HasRequiredScope) => Denied
        /\ EtagDiffers => self = self0
        /\ self /= self0 => ~EtagDiffers

\* the owner sends a description the project does not have with a stale etag
C21_Witness ==
    /\ op = "update_project" /\ args.project_id \in DOMAIN self0.projects
    /\ EtagDiffers
    /\ HasRequiredScope
    /\ "description" \in DOMAIN args.patch
    /\ Patched.description /= Str(args.patch.description)
    /\ raised = "ConflictError"
    /\ self = self0

----------------------------------------------------------------------------
(* The Gitlab authenticator *)

\* the token authenticate sends to Gitlab, and what Gitlab answers to it
SentToken ==
    IF self0.token_field = "Authorization" THEN args.access_token
    ELSE str(Get(args.request.headers, self0.token_field, None))
NoUser == SentToken /= args.gitlab.token \/ args.gitlab.user = None
\* the project id of the request: the one of the body when it has one that is
\* not null, else the one of the query
InBody == Truthy(args.request.json) /\ "project_id" \in DOMAIN args.request.json
InQuery == Truthy(args.request.args) /\ "project_id" \in DOMAIN args.request.args
GivenProjectId ==
    IF InBody /\ args.request.json.project_id /= None THEN args.request.json.project_id
    ELSE IF InQuery THEN args.request.args.project_id
    ELSE None
ProjectExists == args.gitlab.project = GivenProjectId
IsMember == args.gitlab.access_level /= None
ReturnsUser(is_admin) ==
    /\ raised = "None"
    /\ ret.py = "GitlabAPIUser"
    /\ ret.is_admin = is_admin
    /\ ret.project_id = GivenProjectId.v

\* C22 as stated: authenticate, given a project_id, raises Unauthorized when
\* Gitlab returns no user or a user who is not active, MissingResourceError
\* when the project does not exist, Unauthorized when the user is not a member
\* of it, and otherwise returns a user whose is_admin is true exactly when the
\* access level of the member is >= 30; without a project_id in the body or
\* the query it raises ValidationError.
C22_AsStated ==
    op = "authenticate" =>
        IF GivenProjectId = None THEN raised = "ValidationError"
        ELSE IF NoUser THEN raised = "Unauthorized"
        ELSE IF args.gitlab.user.state /= "active" THEN raised = "Unauthorized"
        ELSE IF ~ProjectExists THEN raised = "MissingResourceError"
        ELSE IF ~IsMember THEN raised = "Unauthorized"
        ELSE ReturnsUser(args.gitlab.access_level.v >= 30)

\* C22, amended: authenticate raises ValidationError when the body has no
\* project_id and the query has none, and also when the project_id of the body
\* is null, whatever the query has.  Otherwise it raises Unauthorized when
\* Gitlab refuses the token or returns no user, when the state of the user is
\* not 'active' or when the user has no id; MissingResourceError when the
\* project does not exist; Unauthorized when the user is not a member of the
\* project; and otherwise it returns a user whose is_admin is true exactly when
\* the access level of the member is >= 30.
C22_OutcomesOfAuthenticate ==
    op = "authenticate" =>
        IF (InBody /\ args.request.json.project_id = None) \/ (~InBody /\ ~InQuery)
        THEN raised = "ValidationError" /\ ret = None
        ELSE IF NoUser THEN raised = "Unauthorized" /\ ret = None
        ELSE IF args.gitlab.user.state /= "active" THEN raised = "Unauthorized" /\ ret = None
        ELSE IF args.gitlab.user.id = None THEN raised = "Unauthorized" /\ ret = None
        ELSE IF ~ProjectExists THEN raised = "MissingResourceError" /\ ret = None
        ELSE IF ~IsMember THEN raised = "Unauthorized" /\ ret = None
        ELSE ReturnsUser(args.gitlab.access_level.v >= 30)

\* a member with access level 30 is returned as an admin for the project id of
\* the query
C22_Witness ==
    /\ op = "authenticate"
    /\ ~InBody /\ InQuery
    /\ args.gitlab.access_level = PyInt(30)
    /\ ReturnsUser(TRUE)
    /\ ret.id = "7"

----------------------------------------------------------------------------
(* The order of the rules of a pool *)

\* the classes of the construction that the quota is not compatible with
Incompatible ==
    {i \in DOMAIN args.classes :
        args.quota /= None /\ ~is_resource_class_compatible(args.quota, args.classes[i])}

\* the rules in the order of the claim: whether the construction violates the
\* rule, and the message of the rule
Rules ==
    << [violated |-> \E i \in DOMAIN args.name : args.name[i] = NUL,
        text |-> "'\\x00' is not allowed in 'name' field."],
       [violated |-> Len(args.name) > 40,
        text |-> "'name' cannot be longer than 40 characters."],
       [violated |-> args.default /\ ~args.public,
        text |-> "The default resource pool has to be public."],
       [violated |-> args.default /\ args.quota /= None,
        text |-> "A default resource pool cannot have a quota."],
       [violated |-> Incompatible /= {},
        text |-> "The resource class with name {cls.name} is not compatible with the quota."],
       [violated |-> NumDefaults(args.classes) /= 1,
        text |-> "One default class is required in each resource pool."] >>

Violated == {i \in DOMAIN Rules : Rules[i].violated}

\* C23: a ResourcePool construction that violates one or more rules raises the
\* ValidationError of the first violated rule in the order NUL in name, name
\* longer than 40, default without public, default with quota, a class
\* incompatible with the quota, default-class count not 1; the incompatible
\* class that is named is the first one in the supplied order; and a
\* construction that violates no rule returns a pool.
C23_FirstViolatedRuleIsReported ==
    op = "ResourcePool" =>
        IF Violated = {}
        THEN Returned
        ELSE /\ Failed
             /\ message.text = Rules[First(Violated)].text
             /\ First(Violated) = 5 => message.name = args.classes[First(Incompatible)].name

\* two classes of different names exceed the quota and none is the default:
\* the first of the two is reported, not the number of default classes
C23_Witness ==
    /\ op = "ResourcePool"
    /\ Violated = {5, 6}
    /\ Incompatible = {1, 2}
    /\ args.classes[1].name /= args.classes[2].name
    /\ Failed
    /\ message.text = "The resource class with name {cls.name} is not compatible with the quota."
    /\ message.name = args.classes[1].name

----------------------------------------------------------------------------
(* The order of the resource values *)

\* the tuple a value is compared by
Dimensions(x) == <<x.cpu, x.memory, x.gpu, Storage(x)>>

\* C24: >= on resource values is a partial order on their (cpu, memory, gpu,
\* max_storage) tuples: A >= A holds, A >= B and B >= C imply A >= C, and
\* A >= B and B >= A imply that A and B agree on all four dimensions.  (That it
\* is not a total order is the state of C24_Witness: an A and a B with neither
\* A >= B nor A <= B.)
C24_GeIsAPartialOrder ==
    op = "order" =>
        /\ ret.aa
        /\ (ret.ab /\ ret.bc) => ret.ac
        /\ (ret.ab /\ ret.ba) => Dimensions(self) = Dimensions(args.b)

\* A has more cpu and less memory than B: neither A >= B nor A <= B, while
\* B >= C and A >= C hold
C24_Witness ==
    /\ op = "order"
    /\ self.cpu > args.b.cpu /\ self.memory < args.b.memory
    /\ ~ret.ab /\ ~ret.ab_le /\ ~ret.ba
    /\ ret.bc /\ ret.ac

----------------------------------------------------------------------------
(* The background jobs *)

\* the namespaces the repository has yielded so far
Yielded == {args.namespaces[i] : i \in 1..self.cur}
\* the function has returned or an exception has left it
Ended == self.pc \in {"done", "raised", "returned"}

\* C25: in sync_user_namespaces the events of a namespace are stored only
\* after its authorization write has succeeded, and they are committed only
\* when the write and the stores of all its events have succeeded: in no state
\* is there a namespace with events in the event queue database and no
\* relationships in the authorization database.
C25_NoEventsWithoutAuthorization ==
    self.py = "Sync" =>
        /\ \A n \in NamespaceIds :
              self.queue[n] > 0 => (n \in self.authz /\ self.queue[n] = args.events[n])
        /\ self.stored > 0 => args.namespaces[self.cur] \in self.authz
        /\ \A n \in NamespaceIds : self.tx[n] = "committed" => self.queue[n] = args.events[n]

\* the reverse happens: the relationships of one namespace are written and its
\* events are rolled back after the store of the second one failed, and the
\* events of another namespace are committed
C25_Witness ==
    /\ self.py = "Sync"
    /\ \E n \in NamespaceIds :
          /\ n \in self.authz
          /\ args.events[n] = 2
          /\ self.tx[n] = "rolled back"
          /\ self.queue[n] = 0
    /\ \E n \in NamespaceIds : self.queue[n] > 0

\* C26 as stated: a failure while one namespace is synced does not end the
\* loop, so that no exception leaves sync_user_namespaces; and when the
\* function has ended, every namespace the repository has yielded is attempted
\* exactly once, its transaction is committed or rolled back and its session
\* is closed.
C26_AsStated ==
    (self.py = "Sync" /\ Ended /\ self.pc /= "returned") =>
        /\ self.pc = "done"
        /\ \A n \in Yielded :
              /\ self.attempts[n] = 1
              /\ self.tx[n] \in {"committed", "rolled back"}
              /\ self.session[n] = "closed"

\* C27 as stated: bootstrap_user_namespaces goes on to sync_user_namespaces
\* only if the authorization database has no owner relationship of a user
\* namespace; with one or more it returns without syncing.
C27_AsStated ==
    (self.py = "Sync" /\ op = "bootstrap_user_namespaces") =>
        (self.pc = "returned" <=> args.relationships > 0)

----------------------------------------------------------------------------
(* The default pool and the quota *)

\* C28: for a pool P with default = true and every quota Q, P.set_quota(Q)
\* raises ValidationError, also when Q is compatible with all classes of P;
\* update of P with a quota raises it too, and no pool that set_quota or
\* update returns for P has a quota.
C28_DefaultPoolNeverGetsAQuota ==
    /\ (op = "set_quota" /\ self0.default) => Failed
    /\ (op = "update" /\ self0.default /\ "quota" \in DOMAIN args /\ args.quota /= None) => Failed
    /\ (op \in Methods /\ self0.default /\ Returned) => ret.quota = None

\* set_quota on the default pool with a quota that all its classes fit
C28_Witness ==
    /\ op = "set_quota"
    /\ self0.default
    /\ Len(self0.classes) > 1
    /\ \A i \in DOMAIN self0.classes : is_resource_class_compatible(args, self0.classes[i])
    /\ Failed
    /\ message.text = "A default resource pool cannot have a quota."

----------------------------------------------------------------------------
(* Updates that change nothing *)

\* C29: for every pool P, P.update() with an empty patch returns a pool equal
\* to P, and when P has a quota P.set_quota(P.quota) returns a pool equal to P:
\* the classes with their node affinities and tolerations, the quota and the
\* flags come back from asdict and from_dict as they were.
C29_NoOpReturnsAnEqualPool ==
    /\ (op = "update" /\ DOMAIN args = {}) => (Returned /\ ret = self0)
    /\ (op = "set_quota" /\ args = self0.quota) => (Returned /\ ret = self0)

\* set_quota with its own quota on a pool of two classes, one with two node
\* affinities and two tolerations, and a quota of the other gpu kind
C29_Witness ==
    /\ op = "set_quota"
    /\ args = self0.quota
    /\ args.gpu_kind = AMD
    /\ Len(self0.classes) = 2
    /\ \E i \in DOMAIN self0.classes :
          /\ Len(self0.classes[i].node_affinities) = 2
          /\ Len(self0.classes[i].tolerations) = 2
    /\ Returned
    /\ ret = self0

----------------------------------------------------------------------------
(* Reading a project *)

\* the projects with the namespace and the slug that are asked for
AskedFor == filter_by_namespace_slug(self0, args.namespace, args.slug)

\* C30: for a user without READ permission get_project raises
\* MissingResourceError with a message made of the project id of the call
\* only, whether or not the project exists; get_project_by_namespace_slug
\* raises MissingResourceError with a message made of the namespace and the
\* slug of the call only, for a project that does not exist as for one the user
\* has no READ permission on.  Neither returns a project and neither changes
\* the database.
C30_ReadDoesNotRevealExistence ==
    /\ (op = "get_project" /\ ~has_permission(self0, args.user, args.project_id, "READ")) =>
          /\ raised = "MissingResourceError"
          /\ message = [text |-> "Project with id '{project_id}' does not exist or you do not have access to it.",
                        name |-> <<args.project_id>>]
          /\ ret = None
          /\ self = self0
    /\ ( /\ op = "get_project_by_namespace_slug"
         /\ \A i \in AskedFor : ~has_permission(self0, args.user, i, "READ") ) =>
          /\ raised = "MissingResourceError"
          /\ message = [text |-> "Project with identifier '{namespace}/{slug}' does not exist or you do not have access to it.",
                        name |-> <<args.namespace, args.slug>>]
          /\ ret = None
          /\ self = self0

\* bob asks for the project of the namespace of alice, which exists and on
\* which he has no role
C30_Witness ==
    /\ op = "get_project_by_namespace_slug"
    /\ AskedFor /= {}
    /\ args.user.id = Str("bob")
    /\ \A i \in AskedFor : ~has_permission(self0, args.user, i, "READ")
    /\ raised = "MissingResourceError"
    /\ ret = None

====
